---- MODULE Spec2Model ----
(***************************************************************************)
(* Progress-notification hub of the Corgi fraud detection backend          *)
(* (src/backend/main.py): ConnectionManager, the /ws/{task_id} endpoint,   *)
(* the periodic heartbeat and the background batch worker.                 *)
(*                                                                         *)
(* The backend is one asyncio event loop.  A coroutine runs without        *)
(* interruption from one `await` to the next, so every action below is the *)
(* code between two consecutive suspension points of one coroutine.  The   *)
(* suspension points are: websocket.accept(), websocket.send_text(),       *)
(* websocket.ping(), asyncio.sleep() and awaiting the cancelled heartbeat. *)
(* The transport writes the messages of one socket in the order in which   *)
(* send_text was called on it, so the sends suspended on one socket return *)
(* in that order.                                                          *)
(***************************************************************************)
EXTENDS Integers, Sequences, FiniteSets, TLC

\* ---------------------------------------------------------------- bounds
\* Spec: one task, its worker up to the first asyncio.sleep(1), two observers
MaxTasks == 1
MaxSockets == 2
MaxStage == 3
MaxDrops == 1
MaxBeats == 1
\* SpecRun: one observer and the whole run of the worker
RunSockets == 1
RunDrops == 1
RunBeats == 1
\* SpecPair: two tasks side by side, their workers up to the first sleep,
\* within the first 30 s of every connection (no heartbeat is due)
PairTasks == 2
PairSockets == 2
PairStage == 3
PairDrops == 1
\* SpecCast: broadcasts over the observers of two tasks
CastTasks == 2
CastSockets == 2
CastDrops == 1
CastBeats == 1
MaxCasts == 1
\* SpecVote: threads calling update_score and get_consensus side by side
MaxThreads == 2
MaxItems == 1
MaxVoters == 2
MaxCalls == 4
\* SpecTally: get_consensus over every latest-vote map of four voters
TallyVoters == 4
TallyCalls == 1
\* SpecApi: one run, one observer, and the HTTP requests on the task
ApiSockets == 1
MaxFaults == 1
\* SpecWatch: one run and two observers
WatchSockets == 2
\* SpecItems: two threads on two claims
PairItems == 2
PairCalls == 3
\* SpecClaim: one process_claim, and the votes of three agents
ClaimCalls == 4
MaxJobs == 1

Max(a, b) == IF a >= b THEN a ELSE b
Tasks == 1..Max(MaxTasks, Max(PairTasks, CastTasks))
Sockets == 1..Max(Max(Max(MaxSockets, PairSockets), Max(RunSockets, CastSockets)),
                  Max(ApiSockets, WatchSockets))
Threads == 1..MaxThreads
Items == 1..Max(MaxItems, PairItems)
Voters == 1..Max(MaxVoters, TallyVoters)

\* ------------------------------------------------------ program constants
PendingCap == 10
LastStage == 10
\* Config, with scores counted in thousandths
FRAUD_THRESHOLD == 700
CONSENSUS_THRESHOLD == 3

\* ----------------------------------------------------------------- state
VARIABLES
    batch_tasks,         \* dict task_id -> [status, progress]
    active_connections,  \* dict task_id -> websocket
    conn_order,          \* the entry table of active_connections: its keys in
                         \* insertion order, 0 where a key was deleted
    pending_updates,     \* dict task_id -> list of events
    wsTask,              \* websocket -> task_id of its /ws/{task_id} path
    wsState,             \* websocket -> condition of the client side
    received,            \* websocket -> messages the client has got
    sendq,               \* websocket -> callers suspended in send_text on it
    ep,                  \* websocket -> position of websocket_endpoint
    rlist,               \* websocket -> list object connect() iterates
    ridx,                \* websocket -> index of the element being sent
    ralias,              \* websocket -> rlist is still pending_updates[t]
    frame,               \* caller -> in-flight send_text of send_progress_update
    hb,                  \* websocket -> position of its send_periodic_heartbeat
    wk,                  \* task_id -> position of process_excel_background
    bc,                  \* the broadcast_to_all call in progress
    emitted,             \* history: task_id -> events the worker has emitted
    buffered,            \* history: task_id -> events stored since the entry was made
    rstart,              \* history: websocket -> the buffer when its connect() began
    rquiet,              \* history: websocket -> no emit ran during its connect()
    lastConnected,       \* history: task_id -> websocket of the latest connect()
    unregistered,        \* history: websockets whose registration disconnect() removed
    ext,                 \* history: task_id -> the external calls of its run whose
                         \* failure the code caught and did not pass on
    lim                  \* what is left of the bounds of the exploration

\* the HTTP side of the task registry
VARIABLES
    reply,               \* the response to the latest request on a task
    arrived              \* history: final updates of workers that reached
                         \* the client before their send_text returned

\* MCPIntegration (src/agents_excel.py)
VARIABLES
    scores,              \* dict claim_id -> dict agent -> score, each inner
                         \* dict as its entries in insertion order
    history,             \* list of the votes recorded
    lock,                \* the thread that holds self.lock, 0 when free
    th,                  \* thread -> its call in progress, or its last result
    quota                \* what is left of the bounds of the exploration

coreVars == <<batch_tasks, active_connections, conn_order, pending_updates, wsTask,
          wsState, received, sendq, ep, rlist, ridx, ralias, frame, hb, wk, bc,
          emitted, buffered, rstart, rquiet, lastConnected, unregistered, ext,
          lim>>
hubVars == <<coreVars, reply, arrived>>
storeVars == <<scores, history, lock, th, quota>>
vars == <<hubVars, storeVars>>

\* ------------------------------------------------------------ dictionaries
Put(d, k, v) == [x \in (DOMAIN d) \cup {k} |-> IF x = k THEN v ELSE d[x]]
Del(d, k) == [x \in (DOMAIN d) \ {k} |-> d[x]]
EmptyDict == [x \in {} |-> 0]

\* lst[-n:]
LastN(lst, n) ==
    IF Len(lst) <= n THEN lst ELSE SubSeq(lst, Len(lst) - n + 1, Len(lst))

Without(seq, x) == SelectSeq(seq, LAMBDA y : y # x)

\* the entry table after `del d[k]`
Hole(seq, k) == [i \in DOMAIN seq |-> IF seq[i] = k THEN 0 ELSE seq[i]]

\* ------------------------------------------------------------------ events
Ev(type, task_id, progress, src) ==
    [type |-> type, task_id |-> task_id, progress |-> progress, src |-> src,
     error |-> 0]
\* `str(e)` of the exception process_excel raises, and the path it returns
ErrorText == 1
OutputPath == 1
\* an update of type "error" with its "error" text
ErrorEv(task_id, text, src) ==
    [Ev("error", task_id, -1, src) EXCEPT !.error = text]
Heartbeat(t) == Ev("heartbeat", t, -1, "heartbeat")
ConnectionEstablished(t) == Ev("connection_established", t, -1, "endpoint")
\* what a caller of broadcast_to_all may pass
Announcement == Ev("announcement", 0, -1, "broadcast")
Pulse == Ev("heartbeat", 0, -1, "broadcast")

\* mutant: the last processing step reports less than the one before it
StageProgress_dip == <<0, 10, 20, 30, 40, 50, 70, 85, 80, 100>>

\* the (progress, message) steps of process_excel_background, in order
StageProgress == <<0, 10, 20, 30, 40, 50, 70, 85, 95, 100>>

\* stages whose emit is preceded by `await asyncio.sleep(1)`
SleepStages == 4..9

\* the event the worker emits at stage k
WorkerEvent(t, k, procOk) ==
    IF k < LastStage THEN Ev("progress", t, StageProgress[k], "worker")
    ELSE IF procOk THEN Ev("completed", t, 100, "worker")
    ELSE ErrorEv(t, ErrorText, "worker")

\* the status message websocket_endpoint sends for an existing task
StatusSnapshot(t, task) ==
    IF task.status = "completed" THEN Ev("completed", t, 100, "endpoint")
    ELSE IF task.status = "failed" THEN ErrorEv(t, task.error, "endpoint")
    ELSE Ev("progress", t, task.progress, "endpoint")

\* the entry upload_excel_file makes in batch_tasks; 0 for a key the dict
\* does not have
NewTask == [status |-> "processing", progress |-> 0, output_path |-> 0,
            error |-> 0, completed_at |-> 0]

\* no request has been answered
NoReply == [op |-> "none", task_id |-> 0, arg |-> 0, code |-> "none",
            body |-> NewTask, file |-> 0]

\* ----------------------------------------------------------------- callers
\* every coroutine that may be suspended inside send_text
Callers == ({"wk"} \X Tasks) \cup ({"ep", "hb", "rp"} \X Sockets) \cup {<<"bc", 0>>}
NoFrame == [ws |-> 0, task |-> 0, data |-> Pulse]
NoCast == [at |-> "idle", data |-> Pulse, pos |-> 0, used |-> 0,
           failed |-> <<>>, cur |-> 0, ws |-> 0,
           start |-> EmptyDict, tried |-> {}]

\* the whole state as one record, so that the synchronous pieces of code
\* compose as functions from state to state
St == [bt |-> batch_tasks, ac |-> active_connections, ord |-> conn_order,
       pu |-> pending_updates, wt |-> wsTask, ws |-> wsState,
       rcv |-> received, sq |-> sendq, ep |-> ep, rl |-> rlist, ri |-> ridx,
       ra |-> ralias, fr |-> frame, hb |-> hb, wk |-> wk, bc |-> bc,
       em |-> emitted, buf |-> buffered, rs |-> rstart, rq |-> rquiet,
       lc |-> lastConnected, unreg |-> unregistered, ext |-> ext,
       lim |-> lim]

\* F applied to the value of e: the state a piece of code leaves is
\* computed once and handed to the code that runs next
Then(e, F(_)) == CHOOSE r \in {F(x) : x \in {e}} : TRUE

CommitFields(S) ==
    /\ batch_tasks' = S.bt
    /\ active_connections' = S.ac
    /\ conn_order' = S.ord
    /\ pending_updates' = S.pu
    /\ wsTask' = S.wt
    /\ wsState' = S.ws
    /\ received' = S.rcv
    /\ sendq' = S.sq
    /\ ep' = S.ep
    /\ rlist' = S.rl
    /\ ridx' = S.ri
    /\ ralias' = S.ra
    /\ frame' = S.fr
    /\ hb' = S.hb
    /\ wk' = S.wk
    /\ bc' = S.bc
    /\ emitted' = S.em
    /\ buffered' = S.buf
    /\ rstart' = S.rs
    /\ rquiet' = S.rq
    /\ lastConnected' = S.lc
    /\ unregistered' = S.unreg
    /\ ext' = S.ext
    /\ lim' = S.lim

Commit(S) ==
    /\ \E s \in {S} : CommitFields(s)
    /\ UNCHANGED <<reply, arrived, storeVars>>

\* the send_text a caller is suspended in returns next on its socket
Returns(c, websocket) ==
    sendq[websocket] # <<>> /\ Head(sendq[websocket]) = c

\* ------------------------------------------------------- ConnectionManager
\* connect() is iterating the very list object pending_updates[t] holds
Aliases(S, w, t) == S.ep[w] = "replay" /\ S.wt[w] = t /\ S.ra[w]

\* an emit for task t runs while these connect() calls are replaying
Disturb(S, t) ==
    [S EXCEPT !.rq = [w \in Sockets |->
                        IF S.ep[w] = "replay" /\ S.wt[w] = t THEN FALSE
                        ELSE S.rq[w]]]

\* mutant: the slice keeps the first 10 instead of the last 10
store_pending_update_first10(S, t, data) ==
    LET S1 == IF t \notin DOMAIN S.pu
              THEN [S EXCEPT !.pu = Put(S.pu, t, <<>>), !.buf[t] = <<>>]
              ELSE S
        all == Append(S1.pu[t], data)
    IN IF data.type # "heartbeat"
       THEN [S1 EXCEPT
               !.pu = Put(S1.pu, t, IF Len(all) <= PendingCap THEN all
                                    ELSE SubSeq(all, 1, PendingCap)),
               !.buf[t] = Append(@, data),
               !.rl = [w \in Sockets |->
                         IF Aliases(S1, w, t) THEN Append(S1.rl[w], data)
                         ELSE S1.rl[w]],
               !.ra = [w \in Sockets |->
                         IF Aliases(S1, w, t) THEN FALSE ELSE S1.ra[w]]]
       ELSE S1

\* mutant: heartbeats are stored like any other update
store_pending_update_heartbeats(S, t, data) ==
    LET S1 == IF t \notin DOMAIN S.pu
              THEN [S EXCEPT !.pu = Put(S.pu, t, <<>>), !.buf[t] = <<>>]
              ELSE S
    IN [S1 EXCEPT
          !.pu = Put(S1.pu, t, LastN(Append(S1.pu[t], data), PendingCap)),
          !.buf[t] = Append(@, data),
          !.rl = [w \in Sockets |->
                    IF Aliases(S1, w, t) THEN Append(S1.rl[w], data)
                    ELSE S1.rl[w]],
          !.ra = [w \in Sockets |->
                    IF Aliases(S1, w, t) THEN FALSE ELSE S1.ra[w]]]

\* _store_pending_update: create the entry, append unless heartbeat, keep
\* the last 10.  The append is in place (a connect() iterating the same
\* list object sees it); the slice rebinds the entry to a new list.
store_pending_update(S, t, data) ==
    LET S1 == IF t \notin DOMAIN S.pu
              THEN [S EXCEPT !.pu = Put(S.pu, t, <<>>), !.buf[t] = <<>>]
              ELSE S
    IN IF data.type # "heartbeat"
       THEN [S1 EXCEPT
               !.pu = Put(S1.pu, t, LastN(Append(S1.pu[t], data), PendingCap)),
               !.buf[t] = Append(@, data),
               !.rl = [w \in Sockets |->
                         IF Aliases(S1, w, t) THEN Append(S1.rl[w], data)
                         ELSE S1.rl[w]],
               !.ra = [w \in Sockets |->
                         IF Aliases(S1, w, t) THEN FALSE ELSE S1.ra[w]]]
       ELSE S1

\* mutant: the registration is not removed
disconnect_noop(S, t) == S

\* disconnect
disconnect(S, t) ==
    IF t \in DOMAIN S.ac
    THEN [S EXCEPT !.ac = Del(S.ac, t), !.ord = Hole(S.ord, t),
                   !.unreg = @ \cup {S.ac[t]}]
    ELSE S

\* websocket.client_state.name == "CONNECTED"
ClientStateConnected(s) == s \in {"CONNECTED", "BROKEN"}

\* send_progress_update up to its `await websocket.send_text`: either the
\* caller c is left suspended in the send (frame set) or the call returned
send_progress_update(S, c, t, data) ==
    Then(Disturb(S, t),
         LAMBDA S0 :
           IF t \in DOMAIN S0.ac
           THEN LET websocket == S0.ac[t] IN
                IF ClientStateConnected(S0.ws[websocket])
                THEN [S0 EXCEPT !.fr[c] = [ws |-> websocket, task |-> t,
                                           data |-> data],
                                !.sq[websocket] = Append(@, c)]
                ELSE Then(store_pending_update(S0, t, data),
                          LAMBDA s : disconnect(s, t))
           ELSE store_pending_update(S0, t, data))

Suspended(S, c) == S.fr[c] # NoFrame

\* mutant: a failed send disconnects without storing the update
send_progress_update_resume_nostore(S, c) ==
    LET f == S.fr[c]
        S1 == Disturb([S EXCEPT !.fr[c] = NoFrame, !.sq[f.ws] = Tail(@)], f.task)
    IN IF S.ws[f.ws] = "CONNECTED"
       THEN [S1 EXCEPT !.rcv[f.ws] = Append(@, f.data)]
       ELSE disconnect(S1, f.task)

\* mutant: no try/except around the send: the exception of a failed send
\* leaves send_progress_update and reaches the caller
send_progress_update_resume_raises(S, c) ==
    LET f == S.fr[c]
        S1 == Disturb([S EXCEPT !.fr[c] = NoFrame, !.sq[f.ws] = Tail(@)], f.task)
    IN IF S.ws[f.ws] = "CONNECTED"
       THEN [S1 EXCEPT !.rcv[f.ws] = Append(@, f.data)]
       ELSE IF c[1] = "wk"
       THEN [S1 EXCEPT !.wk[c[2]].at = "except"]
       ELSE S1

\* mutant: the exception of a failed send of the worker's error update
\* leaves send_progress_update and ends the handler of the worker
send_progress_update_resume_fatal(S, c) ==
    LET f == S.fr[c]
        S1 == Disturb([S EXCEPT !.fr[c] = NoFrame, !.sq[f.ws] = Tail(@)], f.task)
    IN IF S.ws[f.ws] = "CONNECTED"
       THEN [S1 EXCEPT !.rcv[f.ws] = Append(@, f.data)]
       ELSE IF c[1] = "wk" /\ f.data.type = "error"
       THEN [S1 EXCEPT !.wk[c[2]].at = "except"]
       ELSE Then(store_pending_update(S1, f.task, f.data),
                 LAMBDA s : disconnect(s, f.task))

\* send_progress_update from the return of `await websocket.send_text`:
\* the message reached the client, or the send raised
send_progress_update_resume(S, c) ==
    LET f == S.fr[c]
        S1 == Disturb([S EXCEPT !.fr[c] = NoFrame, !.sq[f.ws] = Tail(@)], f.task)
    IN IF S.ws[f.ws] = "CONNECTED"
       THEN [S1 EXCEPT !.rcv[f.ws] = Append(@, f.data)]
       ELSE Then(store_pending_update(S1, f.task, f.data),
                 LAMBDA s : disconnect(s, f.task))

\* ------------------------------------------------------ websocket_endpoint
\* the heartbeat task is created and the ping loop entered
endpoint_keepalive(S, w) == [S EXCEPT !.ep[w] = "ping", !.hb[w] = "sleep"]

\* `if task_id in batch_tasks:` send the current status
endpoint_status(S, w) ==
    LET t == S.wt[w] IN
    IF t \in DOMAIN S.bt
          /\ S.bt[t].status \in {"completed", "failed", "processing"}
    THEN Then(send_progress_update(S, <<"ep", w>>, t, StatusSnapshot(t, S.bt[t])),
              LAMBDA s : IF Suspended(s, <<"ep", w>>)
                         THEN [s EXCEPT !.ep[w] = "snap"]
                         ELSE endpoint_keepalive(s, w))
    ELSE endpoint_keepalive(S, w)

\* the initial connection confirmation
endpoint_confirm(S, w) ==
    Then(send_progress_update(S, <<"ep", w>>, S.wt[w],
                              ConnectionEstablished(S.wt[w])),
         LAMBDA s : IF Suspended(s, <<"ep", w>>)
                    THEN [s EXCEPT !.ep[w] = "ce"]
                    ELSE endpoint_status(s, w))

\* mutant: the entry is emptied instead of deleted
connect_clear_emptied(S, w) ==
    LET t == S.wt[w] IN
    IF t \in DOMAIN S.pu
    THEN Then([S EXCEPT !.pu = Put(S.pu, t, <<>>),
                        !.ep[w] = "open",
                        !.buf[t] = <<>>,
                        !.ra = [x \in Sockets |->
                                  IF S.wt[x] = t THEN FALSE ELSE S.ra[x]]],
              LAMBDA s : endpoint_confirm(s, w))
    ELSE [S EXCEPT !.ep[w] = "crashed"]

\* connect(): `del self.pending_updates[task_id]` after the replay loop;
\* a missing key raises KeyError, which leaves websocket_endpoint before
\* its try block
connect_clear(S, w) ==
    LET t == S.wt[w] IN
    IF t \in DOMAIN S.pu
    THEN Then([S EXCEPT !.pu = Del(S.pu, t),
                        !.ep[w] = "open",
                        !.buf[t] = <<>>,
                        !.ra = [x \in Sockets |->
                                  IF S.wt[x] = t THEN FALSE ELSE S.ra[x]]],
              LAMBDA s : endpoint_confirm(s, w))
    ELSE [S EXCEPT !.ep[w] = "crashed"]

\* connect(): the head of the replay loop
connect_next(S, w) ==
    IF S.ri[w] <= Len(S.rl[w])
    THEN [S EXCEPT !.ep[w] = "replay", !.sq[w] = Append(@, <<"rp", w>>)]
    ELSE connect_clear(S, w)

\* mutant: an existing registration is kept
connect_keep_first(S, w) ==
    LET t == S.wt[w]
        S1 == [S EXCEPT !.ac = IF t \in DOMAIN S.ac THEN @ ELSE Put(S.ac, t, w),
                        !.ord = IF t \in DOMAIN S.ac THEN @ ELSE Append(@, t),
                        !.lc[t] = w,
                        !.rq[w] = \A c \in Callers : S.fr[c].task # t]
    IN IF t \in DOMAIN S1.pu
       THEN Then([S1 EXCEPT !.rl[w] = S1.pu[t], !.ri[w] = 1,
                            !.ra[w] = TRUE, !.rs[w] = S1.pu[t]],
                 LAMBDA s : connect_next(s, w))
       ELSE Then(S1, LAMBDA s : endpoint_confirm(s, w))

\* connect() after `await websocket.accept()`
connect(S, w) ==
    LET t == S.wt[w]
        S1 == [S EXCEPT !.ac = Put(S.ac, t, w),
                        !.ord = IF t \in DOMAIN S.ac THEN @ ELSE Append(@, t),
                        !.lc[t] = w,
                        !.rq[w] = \A c \in Callers : S.fr[c].task # t]
    IN IF t \in DOMAIN S1.pu
       THEN Then([S1 EXCEPT !.rl[w] = S1.pu[t], !.ri[w] = 1,
                            !.ra[w] = TRUE, !.rs[w] = S1.pu[t]],
                 LAMBDA s : connect_next(s, w))
       ELSE Then(S1, LAMBDA s : endpoint_confirm(s, w))

\* ------------------------------------------------ process_excel_background
\* the stage whose update follows pd.read_excel(file_path) in the worker
ReadStage == 3

\* how the external calls of one run end: the worker's own read of the
\* file, and in process_excel the read of validate_input, the item scorer
\* (initiate_chat in process_claim) and the write of save_results;
\* "none" for a call that is not made
Runs ==
    {x \in [preread : {"ok", "raised"}, read : {"ok", "raised"},
            score : {"none", "ok", "raised"}, save : {"none", "ok", "raised"}] :
        IF x.read = "raised" THEN x.score = "none" /\ x.save = "none"
        ELSE x.score # "none" /\ x.save # "none"}

\* process_excel returns the output path (TRUE) or raises (FALSE):
\* validate_input answers False when the read raises, and process_excel
\* raises ValueError; process_claim catches what the scorer raises and
\* returns a report with decision ERROR; what save_results raises is
\* raised again
process_excel(x) == x.read = "ok" /\ x.save = "ok"

\* the step that led from the current state to S made the worker's read
\* of the file, or the call of process_excel
PreRead(S, t) == Len(emitted[t]) < ReadStage /\ Len(S.em[t]) >= ReadStage
Processed(S, t) == Len(emitted[t]) < LastStage /\ Len(S.em[t]) >= LastStage

\* the failures the code catches and does not pass on
Swallowed(S, t, x) ==
    (IF PreRead(S, t) /\ x.preread = "raised" THEN 1 ELSE 0)
    + (IF Processed(S, t) /\ x.score = "raised" THEN 1 ELSE 0)

\* x describes calls that the step to S made, and nothing else
Called(S, t, x) ==
    /\ ~PreRead(S, t) => x.preread = "ok"
    /\ ~Processed(S, t) => (x.read = "ok" /\ x.score = "ok" /\ x.save = "ok")
    /\ Swallowed(S, t, x) <= S.lim.faults

\* the failures caught in the step are entered in the history
worker_calls(S, t, x) ==
    [S EXCEPT !.ext[t] = @ \cup {c \in {"preread"} : PreRead(S, t) /\ x.preread = "raised"}
                           \cup {c \in {"score"} : Processed(S, t) /\ x.score = "raised"},
              !.lim.faults = @ - Swallowed(S, t, x)]

RECURSIVE worker_emit(_, _, _, _)
RECURSIVE worker_after(_, _, _, _)

\* the worker reaches the send_progress_update of stage k
worker_emit(S, t, k, procOk) ==
    LET data == WorkerEvent(t, k, procOk)
        S0 == IF k \in SleepStages
              THEN [S EXCEPT !.bt[t].progress = StageProgress[k]]
              ELSE S
    IN IF k > S.lim.stages
       THEN [S EXCEPT !.wk[t] = [stage |-> k, at |-> "cut"]]
       ELSE Then(send_progress_update([S0 EXCEPT !.em[t] = Append(@, data)],
                                      <<"wk", t>>, t, data),
                 LAMBDA s : IF Suspended(s, <<"wk", t>>)
                            THEN [s EXCEPT !.wk[t] = [stage |-> k, at |-> "send"]]
                            ELSE worker_after(s, t, k, procOk))

\* mutant: the except handler emits the error update but does not record
\* the failure in batch_tasks
worker_after_unrecorded(S, t, k, procOk) ==
    IF S.wk[t].at = "except"
    THEN IF k = LastStage /\ S.em[t][Len(S.em[t])].type = "error"
         THEN [S EXCEPT !.wk[t] = [stage |-> k, at |-> "done"]]
         ELSE Then([S EXCEPT !.wk[t].at = "send"],
                   LAMBDA s : worker_emit(s, t, LastStage, FALSE))
    ELSE IF k = LastStage
    THEN LET data == S.em[t][Len(S.em[t])] IN
         [S EXCEPT !.wk[t] = [stage |-> k, at |-> "done"],
                   !.bt[t] = IF data.type = "completed"
                             THEN [@ EXCEPT !.status = "completed",
                                            !.output_path = OutputPath,
                                            !.completed_at = 1,
                                            !.progress = 100]
                             ELSE @]
    ELSE LET S1 == IF k = 1
                   THEN [S EXCEPT !.bt[t].status = "processing",
                                  !.bt[t].progress = 5]
                   ELSE S
         IN IF k + 1 \in SleepStages
            THEN [S1 EXCEPT !.wk[t] = [stage |-> k + 1, at |-> "sleep"]]
            ELSE Then(S1, LAMBDA s : worker_emit(s, t, k + 1, procOk))

\* mutant: the except handler sets the progress back to 0
worker_after_reset(S, t, k, procOk) ==
    IF S.wk[t].at = "except"
    THEN IF k = LastStage /\ S.em[t][Len(S.em[t])].type = "error"
         THEN [S EXCEPT !.wk[t] = [stage |-> k, at |-> "done"]]
         ELSE Then([S EXCEPT !.wk[t].at = "send"],
                   LAMBDA s : worker_emit(s, t, LastStage, FALSE))
    ELSE IF k = LastStage
    THEN LET data == S.em[t][Len(S.em[t])] IN
         [S EXCEPT !.wk[t] = [stage |-> k, at |-> "done"],
                   !.bt[t] = IF data.type = "completed"
                             THEN [@ EXCEPT !.status = "completed",
                                            !.output_path = OutputPath,
                                            !.completed_at = 1,
                                            !.progress = 100]
                             ELSE [@ EXCEPT !.status = "failed",
                                            !.error = data.error,
                                            !.completed_at = 1,
                                            !.progress = 0]]
    ELSE LET S1 == IF k = 1
                   THEN [S EXCEPT !.bt[t].status = "processing",
                                  !.bt[t].progress = 5]
                   ELSE S
         IN IF k + 1 \in SleepStages
            THEN [S1 EXCEPT !.wk[t] = [stage |-> k + 1, at |-> "sleep"]]
            ELSE Then(S1, LAMBDA s : worker_emit(s, t, k + 1, procOk))

\* mutant: the task is marked completed before process_excel has run
worker_after_early(S, t, k, procOk) ==
    IF S.wk[t].at = "except"
    THEN IF k = LastStage /\ S.em[t][Len(S.em[t])].type = "error"
         THEN [S EXCEPT !.wk[t] = [stage |-> k, at |-> "done"]]
         ELSE Then([S EXCEPT !.wk[t].at = "send"],
                   LAMBDA s : worker_emit(s, t, LastStage, FALSE))
    ELSE IF k = LastStage
    THEN LET data == S.em[t][Len(S.em[t])] IN
         [S EXCEPT !.wk[t] = [stage |-> k, at |-> "done"],
                   !.bt[t] = IF data.type = "completed"
                             THEN [@ EXCEPT !.status = "completed",
                                            !.output_path = OutputPath,
                                            !.completed_at = 1,
                                            !.progress = 100]
                             ELSE [@ EXCEPT !.status = "failed",
                                            !.error = data.error,
                                            !.completed_at = 1]]
    ELSE LET S1 == IF k = 1
                   THEN [S EXCEPT !.bt[t].status = "processing",
                                  !.bt[t].progress = 5]
                   ELSE S
             S2 == IF k + 1 = LastStage
                   THEN [S1 EXCEPT !.bt[t].status = "completed",
                                   !.bt[t].completed_at = 1,
                                   !.bt[t].progress = 100]
                   ELSE S1
         IN IF k + 1 \in SleepStages
            THEN [S2 EXCEPT !.wk[t] = [stage |-> k + 1, at |-> "sleep"]]
            ELSE Then(S2, LAMBDA s : worker_emit(s, t, k + 1, procOk))

\* mutant: the update of a completed task leaves output_path out
worker_after_nopath(S, t, k, procOk) ==
    IF S.wk[t].at = "except"
    THEN IF k = LastStage /\ S.em[t][Len(S.em[t])].type = "error"
         THEN [S EXCEPT !.wk[t] = [stage |-> k, at |-> "done"]]
         ELSE Then([S EXCEPT !.wk[t].at = "send"],
                   LAMBDA s : worker_emit(s, t, LastStage, FALSE))
    ELSE IF k = LastStage
    THEN LET data == S.em[t][Len(S.em[t])] IN
         [S EXCEPT !.wk[t] = [stage |-> k, at |-> "done"],
                   !.bt[t] = IF data.type = "completed"
                             THEN [@ EXCEPT !.status = "completed",
                                            !.completed_at = 1,
                                            !.progress = 100]
                             ELSE [@ EXCEPT !.status = "failed",
                                            !.error = data.error,
                                            !.completed_at = 1]]
    ELSE LET S1 == IF k = 1
                   THEN [S EXCEPT !.bt[t].status = "processing",
                                  !.bt[t].progress = 5]
                   ELSE S
         IN IF k + 1 \in SleepStages
            THEN [S1 EXCEPT !.wk[t] = [stage |-> k + 1, at |-> "sleep"]]
            ELSE Then(S1, LAMBDA s : worker_emit(s, t, k + 1, procOk))

\* mutant: the update of batch_tasks after the completed update raises, so
\* the handler emits an error update as well
worker_after_again(S, t, k, procOk) ==
    IF S.wk[t].at = "except"
    THEN IF k = LastStage /\ S.em[t][Len(S.em[t])].type = "error"
         THEN [S EXCEPT !.wk[t] = [stage |-> k, at |-> "done"]]
         ELSE Then([S EXCEPT !.wk[t].at = "send"],
                   LAMBDA s : worker_emit(s, t, LastStage, FALSE))
    ELSE IF k = LastStage
    THEN LET data == S.em[t][Len(S.em[t])] IN
         IF data.type = "completed"
         THEN Then(S, LAMBDA s : worker_emit(s, t, LastStage, FALSE))
         ELSE [S EXCEPT !.wk[t] = [stage |-> k, at |-> "done"],
                        !.bt[t] = [@ EXCEPT !.status = "failed",
                                            !.error = data.error,
                                            !.completed_at = 1]]
    ELSE LET S1 == IF k = 1
                   THEN [S EXCEPT !.bt[t].status = "processing",
                                  !.bt[t].progress = 5]
                   ELSE S
         IN IF k + 1 \in SleepStages
            THEN [S1 EXCEPT !.wk[t] = [stage |-> k + 1, at |-> "sleep"]]
            ELSE Then(S1, LAMBDA s : worker_emit(s, t, k + 1, procOk))

\* the worker continues after the send_progress_update of stage k returned;
\* an exception out of it lands in the handler `except Exception`, which
\* emits the error update, unless it was raised in that handler itself
worker_after(S, t, k, procOk) ==
    IF S.wk[t].at = "except"
    THEN IF k = LastStage /\ S.em[t][Len(S.em[t])].type = "error"
         THEN [S EXCEPT !.wk[t] = [stage |-> k, at |-> "done"]]
         ELSE Then([S EXCEPT !.wk[t].at = "send"],
                   LAMBDA s : worker_emit(s, t, LastStage, FALSE))
    ELSE IF k = LastStage
    THEN LET data == S.em[t][Len(S.em[t])] IN
         [S EXCEPT !.wk[t] = [stage |-> k, at |-> "done"],
                   !.bt[t] = IF data.type = "completed"
                             THEN [@ EXCEPT !.status = "completed",
                                            !.output_path = OutputPath,
                                            !.completed_at = 1,
                                            !.progress = 100]
                             ELSE [@ EXCEPT !.status = "failed",
                                            !.error = data.error,
                                            !.completed_at = 1]]
    ELSE LET S1 == IF k = 1
                   THEN [S EXCEPT !.bt[t].status = "processing",
                                  !.bt[t].progress = 5]
                   ELSE S
         IN IF k + 1 \in SleepStages
            THEN [S1 EXCEPT !.wk[t] = [stage |-> k + 1, at |-> "sleep"]]
            ELSE Then(S1, LAMBDA s : worker_emit(s, t, k + 1, procOk))

\* --------------------------------------------------------- broadcast_to_all
RECURSIVE broadcast_next(_)
RECURSIVE broadcast_cleanup(_, _)

\* the second loop: store the update and disconnect every failed task
broadcast_cleanup(S, i) ==
    IF i > Len(S.bc.failed) THEN [S EXCEPT !.bc.at = "idle"]
    ELSE broadcast_cleanup(
             disconnect(store_pending_update(S, S.bc.failed[i], S.bc.data),
                        S.bc.failed[i]), i + 1)

\* one (task_id, websocket) item of the first loop
broadcast_visit(S, key) ==
    LET websocket == S.ac[key]
        S1 == [S EXCEPT !.bc.tried = @ \cup {websocket}]
    IN IF ClientStateConnected(S.ws[websocket])
       THEN [S1 EXCEPT !.bc.at = "send", !.bc.cur = key, !.bc.ws = websocket,
                       !.sq[websocket] = Append(@, <<"bc", 0>>)]
       ELSE broadcast_next([S1 EXCEPT !.bc.failed = Append(@, key)])

\* the head of the first loop, `for ... in self.active_connections.items()`:
\* the iterator raises RuntimeError when the size of the dict has changed,
\* and otherwise moves on to the next entry of the table that is not a hole
\* (the table is not rebuilt below six insertions)
broadcast_next(S) ==
    LET rest == {i \in DOMAIN S.ord : i > S.bc.pos /\ S.ord[i] # 0} IN
    IF Cardinality(DOMAIN S.ac) # S.bc.used
    THEN [S EXCEPT !.bc.at = "crashed"]
    ELSE IF rest = {} THEN broadcast_cleanup(S, 1)
    ELSE LET i == CHOOSE x \in rest : \A y \in rest : x <= y
         IN broadcast_visit([S EXCEPT !.bc.pos = i], S.ord[i])

\* --------------------------------------------------------- MCPIntegration
\* the scores callers pass to update_score, in thousandths: the two bounds
\* of [0, 1] and one value beyond each of them
VoteScores == {-1, 0, 1000, 1001}

\* mutant: only the upper bound is checked
ValidScore_upper(score) == score <= 1000

\* mutant: the bounds themselves are rejected
ValidScore_open(score) == 0 < score /\ score < 1000

\* `0 <= score <= 1`
ValidScore(score) == 0 <= score /\ score <= 1000

\* an inner dict of self.scores: its entries in insertion order
Keys(d) == {d[i].agent : i \in DOMAIN d}
Entries(d, k) == {i \in DOMAIN d : d[i].agent = k}
Lookup(d, k) == d[CHOOSE i \in Entries(d, k) : TRUE].score

\* mutant: every vote adds an entry
DictSet_append(d, k, v) == Append(d, [agent |-> k, score |-> v])

\* `self.scores[claim_id][agent] = {...}`: the entry of the key is
\* replaced where it stands, a new key goes to the end
DictSet(d, k, v) ==
    IF k \in Keys(d)
    THEN [i \in DOMAIN d |->
            IF d[i].agent = k THEN [agent |-> k, score |-> v] ELSE d[i]]
    ELSE Append(d, [agent |-> k, score |-> v])

\* mutant: the lock is not honoured
LockFree_ignored(l) == TRUE

\* `with self.lock:` can be entered
LockFree(l) == l = 0

\* mutant: the threshold itself does not count
IsFraud_strict(s) == s > FRAUD_THRESHOLD

\* `s >= Config.FRAUD_THRESHOLD`
IsFraud(s) == s >= FRAUD_THRESHOLD

\* `sum(1 for s in simple_scores.values() if s >= Config.FRAUD_THRESHOLD)`
FraudCount(d) == Cardinality({i \in DOMAIN d : IsFraud(d[i].score)})

RECURSIVE SumScores(_)
SumScores(d) == IF d = <<>> THEN 0 ELSE d[1].score + SumScores(Tail(d))

MaxScore(d) == CHOOSE m \in {d[i].score : i \in DOMAIN d} :
                   \A i \in DOMAIN d : d[i].score <= m

Abs(x) == IF x < 0 THEN -x ELSE x

\* mutant: the digits after the second decimal are cut off
Round2_floor(num, den) == {(num \div den) \div 10}

\* `round(x, 2)` of x = num/den thousandths, in hundredths: the nearest
\* hundredth; where x lies halfway in decimal its binary value lies on
\* one side or the other, so either neighbour can be the result
Round2(num, den) ==
    {h \in 0..100 : 2 * Abs(num - 10 * h * den) <= 10 * den}

\* the empty dict `{}`; agent_details is held as the key of the dict of
\* self.scores it refers to, 0 where there is none
NoDetail == [empty |-> TRUE, scores |-> <<>>, average_score |-> 0,
             max_score |-> 0, fraud_count |-> 0, agent_details |-> 0]

\* what a call returns: the bool of update_score, or the pair of get_consensus
Result(ok, detail) == [ok |-> ok, detail |-> detail]

\* mutant: an unknown claim_id gets a detail of zeros
consensus_absent_zeros == Result(FALSE, [NoDetail EXCEPT !.empty = FALSE])

\* `if claim_id not in self.scores: return False, {}`
consensus_absent == Result(FALSE, NoDetail)

\* the results get_consensus can return over simple_scores
consensus_results(simple) ==
    LET n == Len(simple)
        fraud_count == FraudCount(simple)
        avgs == IF simple # <<>> THEN Round2(SumScores(simple), n) ELSE {0}
        maxs == IF simple # <<>> THEN Round2(MaxScore(simple), 1) ELSE {0}
    IN {Result(fraud_count >= CONSENSUS_THRESHOLD,
               [empty |-> FALSE, scores |-> simple, average_score |-> a,
                max_score |-> m, fraud_count |-> fraud_count,
                agent_details |-> 0]) :
          a \in avgs, m \in maxs}

Vote(claim_id, agent, score) ==
    [claim_id |-> claim_id, agent |-> agent, score |-> score]

\* the report of process_claim; `error` says that it has the key 'error'
NoReport == [decision |-> "none", agent_scores |-> NoDetail, error |-> FALSE]

IdleThread ==
    [pc |-> "idle", op |-> "none", claim_id |-> 0, agent |-> 0, score |-> 0,
     simple_scores |-> <<>>, idx |-> 0, used |-> 0,
     ret |-> Result(FALSE, NoDetail),
     seen |-> 0,      \* history: len(self.history) when the call began
     hist |-> 0,      \* history: len(self.history) when the lock was taken
     snap |-> <<>>,   \* history: self.scores[claim_id] when the lock was taken
     had |-> FALSE,   \* history: claim_id was in self.scores at that moment
     log |-> <<>>,    \* history: the calls of the thread that have returned
     job |-> "none",  \* position of the thread in process_claim
     item |-> 0,      \* claim_id of that process_claim
     report |-> NoReport]

Logged(t, ret) ==
    [op |-> t.op, claim_id |-> t.claim_id, agent |-> t.agent,
     score |-> t.score, ok |-> ret.ok, seen |-> t.seen]

\* the call of thread record t returns ret
Return(t, ret) ==
    [t EXCEPT !.pc = "idle", !.ret = ret, !.log = Append(@, Logged(t, ret))]

\* update_score is called: the validation, and the ValueError caught at
\* the end of the function
UpdateCall(i, claim_id, agent, score) ==
    /\ th[i].pc = "idle"
    /\ quota.calls > 0
    /\ i <= quota.threads /\ claim_id <= quota.items /\ agent <= quota.voters
    /\ quota' = [quota EXCEPT !.calls = @ - 1]
    /\ LET t == [th[i] EXCEPT !.op = "vote", !.claim_id = claim_id,
                              !.agent = agent, !.score = score,
                              !.seen = Len(history)]
       IN th' = [th EXCEPT ![i] = IF ValidScore(score)
                                  THEN [t EXCEPT !.pc = "acquire"]
                                  ELSE Return(t, Result(FALSE, NoDetail))]
    /\ UNCHANGED <<scores, history, lock, hubVars>>

\* update_score enters `with self.lock:`
UpdateAcquire(i) ==
    /\ th[i].pc = "acquire" /\ th[i].op = "vote"
    /\ LockFree(lock)
    /\ lock' = i
    /\ th' = [th EXCEPT ![i].pc = "set"]
    /\ UNCHANGED <<scores, history, quota, hubVars>>

\* the entry of claim_id is made where missing, and the vote is put in it
UpdateStore(i) ==
    /\ th[i].pc = "set"
    /\ LET c == th[i].claim_id
           d == IF c \in DOMAIN scores THEN scores[c] ELSE <<>>
       IN scores' = Put(scores, c, DictSet(d, th[i].agent, th[i].score))
    /\ th' = [th EXCEPT ![i].pc = "append"]
    /\ UNCHANGED <<history, lock, quota, hubVars>>

\* self.history.append(...), the lock is released and True returned
UpdateAppend(i) ==
    /\ th[i].pc = "append"
    /\ history' = Append(history, Vote(th[i].claim_id, th[i].agent, th[i].score))
    /\ lock' = 0
    /\ th' = [th EXCEPT ![i] = Return(@, Result(TRUE, NoDetail))]
    /\ UNCHANGED <<scores, quota, hubVars>>

\* get_consensus is called
ConsensusCall(i, claim_id) ==
    /\ th[i].pc = "idle"
    /\ quota.calls > 0
    /\ i <= quota.threads /\ claim_id <= quota.items
    /\ quota' = [quota EXCEPT !.calls = @ - 1]
    /\ th' = [th EXCEPT ![i] = [@ EXCEPT !.pc = "acquire", !.op = "consensus",
                                         !.claim_id = claim_id, !.agent = 0,
                                         !.score = 0, !.seen = Len(history)]]
    /\ UNCHANGED <<scores, history, lock, hubVars>>

\* get_consensus enters `with self.lock:` and looks claim_id up
ConsensusAcquire(i) ==
    /\ th[i].pc = "acquire" /\ th[i].op = "consensus"
    /\ LockFree(lock)
    /\ LET c == th[i].claim_id
           t == [th[i] EXCEPT !.hist = Len(history),
                              !.had = c \in DOMAIN scores,
                              !.snap = IF c \in DOMAIN scores
                                       THEN scores[c] ELSE <<>>]
       IN IF c \in DOMAIN scores
          THEN /\ lock' = i
               /\ th' = [th EXCEPT ![i] =
                           [t EXCEPT !.pc = "read", !.simple_scores = <<>>,
                                     !.idx = 1, !.used = Len(scores[c])]]
          ELSE /\ lock' = 0
               /\ th' = [th EXCEPT ![i] = Return(t, consensus_absent)]
    /\ UNCHANGED <<scores, history, quota, hubVars>>

\* one step of `{k: v['score'] for k, v in scores_data.items()}`: the
\* iterator raises RuntimeError when the size of the dict has changed
\* (caught at the end of the function), and otherwise yields the next entry
ConsensusRead(i) ==
    LET d == scores[th[i].claim_id] IN
    /\ th[i].pc = "read"
    /\ Len(d) # th[i].used \/ th[i].idx <= Len(d)
    /\ IF Len(d) # th[i].used
       THEN /\ lock' = 0
            /\ th' = [th EXCEPT ![i] = Return(@, Result(FALSE, NoDetail))]
       ELSE /\ lock' = lock
            /\ th' = [th EXCEPT ![i].simple_scores = Append(@, d[th[i].idx]),
                                ![i].idx = @ + 1]
    /\ UNCHANGED <<scores, history, quota, hubVars>>

\* `scores_data = self.scores[claim_id]`: the dict of the claim itself
scores_data(claim_id) == claim_id

\* what `detail['agent_details']` holds when the caller reads it
AgentDetails(detail) ==
    IF detail.agent_details \in DOMAIN scores
    THEN scores[detail.agent_details] ELSE <<>>

\* the counts are taken of simple_scores, the lock is released and the
\* pair returned, with scores_data under 'agent_details'
ConsensusReturn(i) ==
    LET d == scores[th[i].claim_id] IN
    /\ th[i].pc = "read"
    /\ Len(d) = th[i].used /\ th[i].idx > Len(d)
    /\ lock' = 0
    /\ \E r \in consensus_results(th[i].simple_scores) :
         th' = [th EXCEPT ![i] =
                  Return(@, [r EXCEPT !.detail.agent_details =
                                          scores_data(th[i].claim_id)])]
    /\ UNCHANGED <<scores, history, quota, hubVars>>

\* ------------------------------------------ CorgiAgentSystem.process_claim
\* mutant: a consensus of fraud approves the claim
Decision_inverted(is_fraud) == IF is_fraud THEN "APPROVE" ELSE "REJECT"

\* `"REJECT" if is_fraud else "APPROVE"`
Decision(is_fraud) == IF is_fraud THEN "REJECT" ELSE "APPROVE"

\* process_claim is called and enters user_proxy.initiate_chat
ProcessClaim(i, claim_id) ==
    /\ th[i].pc = "idle" /\ th[i].job = "none"
    /\ quota.jobs > 0
    /\ i <= quota.threads /\ claim_id <= quota.items
    /\ quota' = [quota EXCEPT !.jobs = @ - 1]
    /\ th' = [th EXCEPT ![i].job = "chat", ![i].item = claim_id]
    /\ UNCHANGED <<scores, history, lock, hubVars>>

\* during the chat the reply handler of an agent calls update_score with
\* the score of the agent's message
HandlerVote(i, agent, score) ==
    /\ th[i].job = "chat"
    /\ UpdateCall(i, th[i].item, agent, score)

\* a caller outside process_claim calls update_score
OtherVote(i, claim_id, agent, score) ==
    /\ th[i].job = "none"
    /\ UpdateCall(i, claim_id, agent, score)

\* the chat, or anything else in the try block, raises: the report with
\* decision ERROR is returned
ClaimRaise(i) ==
    /\ th[i].pc = "idle" /\ th[i].job = "chat"
    /\ th' = [th EXCEPT ![i].job = "done",
                        ![i].report = [NoReport EXCEPT !.decision = "ERROR",
                                                       !.error = TRUE]]
    /\ UNCHANGED <<scores, history, lock, quota, hubVars>>

\* the chat returns and process_claim calls self.mcp.get_consensus(claim_id)
ClaimConsensus(i) ==
    /\ th[i].pc = "idle" /\ th[i].job = "chat"
    /\ th' = [th EXCEPT ![i] = [@ EXCEPT !.pc = "acquire", !.op = "consensus",
                                         !.claim_id = th[i].item, !.agent = 0,
                                         !.score = 0, !.seen = Len(history),
                                         !.job = "consensus"]]
    /\ UNCHANGED <<scores, history, lock, quota, hubVars>>

\* get_consensus has returned (is_fraud, agent_scores): the report
ClaimReport(i) ==
    /\ th[i].pc = "idle" /\ th[i].job = "consensus"
    /\ th' = [th EXCEPT ![i].job = "done",
                        ![i].report = [NoReport EXCEPT
                                         !.decision = Decision(th[i].ret.ok),
                                         !.agent_scores = th[i].ret.detail]]
    /\ UNCHANGED <<scores, history, lock, quota, hubVars>>

\* MCPIntegration.__init__
InitStore(q) ==
    /\ scores = EmptyDict
    /\ history = <<>>
    /\ lock = 0
    /\ th = [i \in Threads |-> IdleThread]
    /\ quota = q @@ [jobs |-> 0]

NoCalls == [calls |-> 0, threads |-> 0, items |-> 0, voters |-> 0]

\* ------------------------------------------------------------------- Init
InitHubWith(l, bt) ==
    /\ lim = l @@ [faults |-> 0]
    /\ ext = [t \in Tasks |-> {}]
    /\ reply = NoReply
    /\ arrived = {}
    /\ batch_tasks = bt
    /\ active_connections = EmptyDict
    /\ conn_order = <<>>
    /\ pending_updates = EmptyDict
    /\ wsTask = [w \in Sockets |-> 0]
    /\ wsState = [w \in Sockets |-> "NEW"]
    /\ received = [w \in Sockets |-> <<>>]
    /\ sendq = [w \in Sockets |-> <<>>]
    /\ ep = [w \in Sockets |-> "new"]
    /\ rlist = [w \in Sockets |-> <<>>]
    /\ ridx = [w \in Sockets |-> 0]
    /\ ralias = [w \in Sockets |-> FALSE]
    /\ frame = [c \in Callers |-> NoFrame]
    /\ hb = [w \in Sockets |-> "none"]
    /\ wk = [t \in Tasks |-> [stage |-> 0, at |-> "none"]]
    /\ bc = NoCast
    /\ emitted = [t \in Tasks |-> <<>>]
    /\ buffered = [t \in Tasks |-> <<>>]
    /\ rstart = [w \in Sockets |-> <<>>]
    /\ rquiet = [w \in Sockets |-> TRUE]
    /\ lastConnected = [t \in Tasks |-> 0]
    /\ unregistered = {}

InitHub(l) == InitHubWith(l, EmptyDict)

InitWith(l) == InitHub(l) /\ InitStore(NoCalls)

Init == InitWith([tasks |-> MaxTasks, sockets |-> MaxSockets,
                  stages |-> MaxStage, drops |-> MaxDrops,
                  beats |-> MaxBeats, casts |-> 0])

InitRun == InitWith([tasks |-> MaxTasks, sockets |-> RunSockets,
                     stages |-> LastStage, drops |-> RunDrops,
                     beats |-> RunBeats, casts |-> 0])

InitPair == InitWith([tasks |-> PairTasks, sockets |-> PairSockets,
                      stages |-> PairStage, drops |-> PairDrops,
                      beats |-> 0, casts |-> 0])

InitCast == InitWith([tasks |-> CastTasks, sockets |-> CastSockets,
                      stages |-> 0, drops |-> CastDrops,
                      beats |-> CastBeats, casts |-> MaxCasts])

\* ---------------------------------------------------------------- actions
\* upload_excel_file with an identifier that may have been issued before
UploadExcel_reissued(t) ==
    /\ t <= lim.tasks
    /\ Commit([St EXCEPT !.bt = Put(batch_tasks, t, NewTask),
                         !.wk[t] = [stage |-> 1, at |-> "sleep"]])

\* upload_excel_file: register the task and schedule the worker
UploadExcel(t) ==
    /\ t \notin DOMAIN batch_tasks
    /\ t <= lim.tasks
    /\ \A u \in Tasks : u < t => u \in DOMAIN batch_tasks
    /\ Commit([St EXCEPT !.bt = Put(batch_tasks, t, NewTask),
                         !.wk[t] = [stage |-> 1, at |-> "sleep"]])

\* a client opens /ws/{t}: websocket_endpoint starts and awaits accept()
EndpointOpen(w, t) ==
    /\ ep[w] = "new"
    /\ w <= lim.sockets
    /\ t <= lim.tasks
    /\ \A x \in Sockets : x < w => ep[x] # "new"
    /\ Commit([St EXCEPT !.ep[w] = "accept", !.wt[w] = t,
                         !.ws[w] = "CONNECTING"])

\* the client goes away: its socket reports a non-CONNECTED state, or
\* still reports CONNECTED while every send on it raises
ClientDrop(w, s) ==
    /\ wsState[w] \in {"CONNECTING", "CONNECTED"}
    /\ s \in {"DISCONNECTED", "BROKEN"}
    /\ lim.drops > 0
    /\ Commit([St EXCEPT !.ws[w] = s, !.lim.drops = @ - 1])

\* accept() returns (or raises, and the endpoint ends before registering)
EndpointAccept(w) ==
    /\ ep[w] = "accept"
    /\ IF wsState[w] = "CONNECTING"
       THEN Commit(connect([St EXCEPT !.ws[w] = "CONNECTED"], w))
       ELSE Commit([St EXCEPT !.ep[w] = "crashed"])

\* connect(): the send_text of one buffered update returns or raises
ConnectReplay(w) ==
    /\ ep[w] = "replay"
    /\ Returns(<<"rp", w>>, w)
    /\ LET S1 == [St EXCEPT !.sq[w] = Tail(@)]
       IN IF wsState[w] = "CONNECTED"
          THEN Commit(connect_next(
                   [S1 EXCEPT !.rcv[w] = Append(@, rlist[w][ridx[w]]),
                              !.ri[w] = @ + 1], w))
          ELSE Commit(connect_clear(S1, w))

\* the send of the connection confirmation returns or raises
EndpointConfirmed(w) ==
    /\ ep[w] = "ce"
    /\ Returns(<<"ep", w>>, frame[<<"ep", w>>].ws)
    /\ Commit(Then(send_progress_update_resume(St, <<"ep", w>>),
                    LAMBDA s : endpoint_status(s, w)))

\* the send of the status message returns or raises
EndpointStatusSent(w) ==
    /\ ep[w] = "snap"
    /\ Returns(<<"ep", w>>, frame[<<"ep", w>>].ws)
    /\ Commit(Then(send_progress_update_resume(St, <<"ep", w>>),
                    LAMBDA s : endpoint_keepalive(s, w)))

\* websocket.ping() raises: leave the loop, cancel the heartbeat task.
\* A heartbeat cancelled inside send_text has been written or not.
EndpointPingFailed(w) ==
    /\ ep[w] = "ping"
    /\ \E written \in BOOLEAN :
         LET f == frame[<<"hb", w>>]
             S1 == [St EXCEPT !.ep[w] = "cancel", !.hb[w] = "done",
                              !.fr[<<"hb", w>>] = NoFrame,
                              !.sq = [x \in Sockets |->
                                        Without(sendq[x], <<"hb", w>>)]]
         IN IF hb[w] = "send" /\ wsState[f.ws] = "CONNECTED"
            THEN IF written
                 THEN Commit([S1 EXCEPT !.rcv[f.ws] = Append(@, f.data)])
                 ELSE Commit(S1)
            ELSE written /\ Commit(S1)

\* the cancelled heartbeat task has ended: finally manager.disconnect
EndpointClose(w) ==
    /\ ep[w] = "cancel"
    /\ Commit(disconnect([St EXCEPT !.ep[w] = "done"], wsTask[w]))

\* send_periodic_heartbeat wakes from asyncio.sleep(interval)
HeartbeatTick(w) ==
    /\ hb[w] = "sleep"
    /\ lim.beats > 0
    /\ LET S1 == send_progress_update([St EXCEPT !.lim.beats = @ - 1],
                                      <<"hb", w>>, wsTask[w],
                                      Heartbeat(wsTask[w]))
       IN IF Suspended(S1, <<"hb", w>>)
          THEN Commit([S1 EXCEPT !.hb[w] = "send"])
          ELSE Commit(S1)

\* the heartbeat's send_text returns or raises; back to sleep
HeartbeatSent(w) ==
    /\ hb[w] = "send"
    /\ Returns(<<"hb", w>>, frame[<<"hb", w>>].ws)
    /\ Commit([send_progress_update_resume(St, <<"hb", w>>)
                  EXCEPT !.hb[w] = "sleep"])

\* the worker wakes from asyncio.sleep and runs to its next suspension
WorkerWake(t) ==
    /\ wk[t].at = "sleep"
    /\ \E procOk \in BOOLEAN :
         /\ (wk[t].stage + 1 < LastStage => procOk)
         /\ \E S1 \in {worker_emit(St, t, wk[t].stage, procOk)} :
              \E x \in Runs :
                  /\ process_excel(x) = procOk
                  /\ Called(S1, t, x)
                  /\ Commit(worker_calls(S1, t, x))

\* the worker's send_text returns or raises, and the worker runs on
WorkerSent(t) ==
    /\ wk[t].at = "send"
    /\ Returns(<<"wk", t>>, frame[<<"wk", t>>].ws)
    /\ \E procOk \in BOOLEAN :
         /\ (wk[t].stage + 1 < LastStage => procOk)
         /\ \E S1 \in {Then(send_progress_update_resume(St, <<"wk", t>>),
                             LAMBDA s : worker_after(s, t, wk[t].stage, procOk))} :
              \E x \in Runs :
                  /\ process_excel(x) = procOk
                  /\ Called(S1, t, x)
                  /\ Commit(worker_calls(S1, t, x))

\* broadcast_to_all(data) is called
BroadcastStart(data) ==
    /\ bc.at \in {"idle", "crashed"}
    /\ lim.casts > 0
    /\ Commit(broadcast_next(
           [St EXCEPT !.lim.casts = @ - 1,
                      !.bc = [NoCast EXCEPT !.data = data,
                                !.used = Cardinality(DOMAIN active_connections),
                                !.start = active_connections]]))

\* the broadcast's send_text returns or raises, and the loop runs on
BroadcastSent ==
    /\ bc.at = "send"
    /\ Returns(<<"bc", 0>>, bc.ws)
    /\ LET S1 == [St EXCEPT !.sq[bc.ws] = Tail(@)]
       IN IF wsState[bc.ws] = "CONNECTED"
          THEN Commit(broadcast_next(
                   [S1 EXCEPT !.rcv[bc.ws] = Append(@, bc.data)]))
          ELSE Commit(broadcast_next(
                   [S1 EXCEPT !.bc.failed = Append(@, bc.cur)]))

Next ==
    \/ \E t \in Tasks : UploadExcel(t)
    \/ \E w \in Sockets, t \in Tasks : EndpointOpen(w, t)
    \/ \E w \in Sockets, s \in {"DISCONNECTED", "BROKEN"} : ClientDrop(w, s)
    \/ \E w \in Sockets : EndpointAccept(w)
    \/ \E w \in Sockets : ConnectReplay(w)
    \/ \E w \in Sockets : EndpointConfirmed(w)
    \/ \E w \in Sockets : EndpointStatusSent(w)
    \/ \E w \in Sockets : EndpointPingFailed(w)
    \/ \E w \in Sockets : EndpointClose(w)
    \/ \E w \in Sockets : HeartbeatTick(w)
    \/ \E w \in Sockets : HeartbeatSent(w)
    \/ \E t \in Tasks : WorkerWake(t)
    \/ \E t \in Tasks : WorkerSent(t)

\* Uploads, workers and endpoints before any heartbeat interval has elapsed
NextPair ==
    \/ \E t \in Tasks : UploadExcel(t)
    \/ \E w \in Sockets, t \in Tasks : EndpointOpen(w, t)
    \/ \E w \in Sockets, s \in {"DISCONNECTED", "BROKEN"} : ClientDrop(w, s)
    \/ \E w \in Sockets : EndpointAccept(w)
    \/ \E w \in Sockets : ConnectReplay(w)
    \/ \E w \in Sockets : EndpointConfirmed(w)
    \/ \E w \in Sockets : EndpointStatusSent(w)
    \/ \E w \in Sockets : EndpointPingFailed(w)
    \/ \E w \in Sockets : EndpointClose(w)
    \/ \E t \in Tasks : WorkerWake(t)
    \/ \E t \in Tasks : WorkerSent(t)

\* Observers of tasks that were never uploaded, with broadcast_to_all being
\* called: no task is in batch_tasks, so the endpoint sends no status
\* snapshot and no worker runs.
NextCast ==
    \/ \E w \in Sockets, t \in Tasks : EndpointOpen(w, t)
    \/ \E w \in Sockets, s \in {"DISCONNECTED", "BROKEN"} : ClientDrop(w, s)
    \/ \E w \in Sockets : EndpointAccept(w)
    \/ \E w \in Sockets : ConnectReplay(w)
    \/ \E w \in Sockets : EndpointConfirmed(w)
    \/ \E w \in Sockets : EndpointPingFailed(w)
    \/ \E w \in Sockets : EndpointClose(w)
    \/ \E w \in Sockets : HeartbeatTick(w)
    \/ \E w \in Sockets : HeartbeatSent(w)
    \/ \E data \in {Announcement, Pulse} : BroadcastStart(data)
    \/ BroadcastSent

Spec == Init /\ [][Next]_vars
SpecRun == InitRun /\ [][Next]_vars
SpecPair == InitPair /\ [][NextPair]_vars

\* The event loop resumes a coroutine whose await has completed: a sleep
\* that elapsed, a send_text or accept that returned or raised.  Nothing
\* is assumed of the clients, the uploads or the timers.
Resume ==
    \/ \E t \in Tasks : WorkerWake(t) \/ WorkerSent(t)
    \/ \E w \in Sockets :
         \/ EndpointAccept(w)
         \/ ConnectReplay(w)
         \/ EndpointConfirmed(w)
         \/ EndpointStatusSent(w)
         \/ HeartbeatSent(w)
Fairness == WF_vars(Resume)
SpecLive == InitRun /\ [][Next]_vars /\ Fairness
SpecCast == InitCast /\ [][NextCast]_vars

\* one full run watched by observers that come one after the other and
\* never break; the handler of any of them may end (websocket.ping raises)
EndpointOpenNext(w, t) ==
    /\ t \in DOMAIN batch_tasks
    /\ \A u \in Sockets : u < w => ep[u] \in {"ping", "cancel", "done"}
    /\ EndpointOpen(w, t)

InitWatch == InitWith([tasks |-> MaxTasks, sockets |-> WatchSockets,
                       stages |-> LastStage, drops |-> 0,
                       beats |-> 0, casts |-> 0])
NextWatch ==
    \/ \E t \in Tasks : UploadExcel(t)
    \/ \E w \in Sockets, t \in Tasks : EndpointOpenNext(w, t)
    \/ \E w \in Sockets : EndpointAccept(w)
    \/ \E w \in Sockets : ConnectReplay(w)
    \/ \E w \in Sockets : EndpointConfirmed(w)
    \/ \E w \in Sockets : EndpointStatusSent(w)
    \/ \E w \in Sockets : EndpointPingFailed(w)
    \/ \E w \in Sockets : EndpointClose(w)
    \/ \E t \in Tasks : WorkerWake(t)
    \/ \E t \in Tasks : WorkerSent(t)
SpecWatch == InitWatch /\ [][NextWatch]_vars /\ Fairness

\* ------------------------------------------------- batch_tasks as a dict
\* the entries a run leaves in batch_tasks: after the upload, during the
\* processing steps, completed, failed
TaskStates ==
    {NewTask,
     [NewTask EXCEPT !.progress = 5],
     [NewTask EXCEPT !.progress = 95],
     [NewTask EXCEPT !.status = "completed", !.progress = 100,
                     !.output_path = OutputPath, !.completed_at = 1],
     [NewTask EXCEPT !.status = "failed", !.progress = 95,
                     !.error = ErrorText, !.completed_at = 1]}

\* `batch_tasks[task_id]["status"] = status`, for any task and status: the
\* assignment to a key of a dict; KeyError for an unknown task_id
RegistrySetStatus(t, status) ==
    /\ reply' = [NoReply EXCEPT !.op = "set_status", !.task_id = t,
                                !.arg = status,
                                !.code = IF t \in DOMAIN batch_tasks
                                        THEN "ok" ELSE "KeyError"]
    /\ CommitFields(IF t \in DOMAIN batch_tasks
                    THEN [St EXCEPT !.bt[t].status = status] ELSE St)
    /\ UNCHANGED <<arrived, storeVars>>

\* `batch_tasks[task_id]["progress"] = progress`, for any task and value
RegistrySetProgress(t, progress) ==
    /\ reply' = [NoReply EXCEPT !.op = "set_progress", !.task_id = t,
                                !.arg = progress,
                                !.code = IF t \in DOMAIN batch_tasks
                                        THEN "ok" ELSE "KeyError"]
    /\ CommitFields(IF t \in DOMAIN batch_tasks
                    THEN [St EXCEPT !.bt[t].progress = progress] ELSE St)
    /\ UNCHANGED <<arrived, storeVars>>

\* batch_tasks holding one task at some point of its run, no coroutine
\* running
InitRegistry ==
    /\ \E task \in TaskStates :
         InitHubWith([tasks |-> 0, sockets |-> 0, stages |-> 0, drops |-> 0,
                      beats |-> 0, casts |-> 0], Put(EmptyDict, 1, task))
    /\ InitStore(NoCalls)

\* the two item assignments of process_excel_background, with any argument
NextRegistry ==
    \/ \E t \in Tasks, status \in {"processing", "completed", "failed"} :
         RegistrySetStatus(t, status)
    \/ \E t \in Tasks, progress \in {0, 50, 100} :
         RegistrySetProgress(t, progress)

SpecRegistry == InitRegistry /\ [][NextRegistry]_vars

\* ------------------------------------------------------------ HTTP routes
\* get_batch_status: 404 for an unknown task, else the entry of the task
GetBatchStatus(t) ==
    /\ reply' = IF t \in DOMAIN batch_tasks
                THEN [NoReply EXCEPT !.op = "status", !.task_id = t,
                                     !.code = "ok", !.body = batch_tasks[t]]
                ELSE [NoReply EXCEPT !.op = "status", !.task_id = t,
                                     !.code = "not_found"]
    /\ UNCHANGED <<coreVars, arrived, storeVars>>

\* download_results without the test of the task's status
DownloadResults_unchecked(t, exists) ==
    /\ reply' = [NoReply EXCEPT
                   !.op = "download", !.task_id = t,
                   !.code = IF t \notin DOMAIN batch_tasks THEN "not_found"
                            ELSE IF ~exists THEN "file_not_found"
                            ELSE "ok",
                   !.file = IF t \in DOMAIN batch_tasks /\ exists
                            THEN batch_tasks[t].output_path ELSE 0]
    /\ UNCHANGED <<coreVars, arrived, storeVars>>

\* download_results: 404 for an unknown task, 400 unless the status is
\* completed, 404 when the file is not there, else the file
DownloadResults(t, exists) ==
    /\ reply' = [NoReply EXCEPT
                   !.op = "download", !.task_id = t,
                   !.code = IF t \notin DOMAIN batch_tasks THEN "not_found"
                            ELSE IF batch_tasks[t].status # "completed"
                            THEN "not_completed"
                            ELSE IF ~exists THEN "file_not_found"
                            ELSE "ok",
                   !.file = IF /\ t \in DOMAIN batch_tasks
                               /\ batch_tasks[t].status = "completed"
                               /\ exists
                            THEN batch_tasks[t].output_path ELSE 0]
    /\ UNCHANGED <<coreVars, arrived, storeVars>>

\* the final update of the worker of t, handed to a connected socket,
\* reaches the client while the worker is still suspended in send_text
Arrive(t) ==
    LET f == frame[<<"wk", t>>] IN
    /\ f # NoFrame
    /\ f.data.type \in {"completed", "error"}
    /\ Returns(<<"wk", t>>, f.ws)
    /\ wsState[f.ws] = "CONNECTED"
    /\ f.data \notin arrived
    /\ arrived' = arrived \cup {f.data}
    /\ UNCHANGED <<coreVars, reply, storeVars>>

InitApi == InitWith([tasks |-> MaxTasks, sockets |-> ApiSockets,
                     stages |-> LastStage, drops |-> 0,
                     beats |-> 0, casts |-> 0])

\* one run and its observer, whose sends all succeed, with status queries
\* and downloads at any time
NextApi ==
    \/ \E t \in Tasks : UploadExcel(t)
    \/ \E w \in Sockets, t \in Tasks : EndpointOpen(w, t)
    \/ \E w \in Sockets : EndpointAccept(w)
    \/ \E w \in Sockets : ConnectReplay(w)
    \/ \E w \in Sockets : EndpointConfirmed(w)
    \/ \E w \in Sockets : EndpointStatusSent(w)
    \/ \E w \in Sockets : EndpointPingFailed(w)
    \/ \E w \in Sockets : EndpointClose(w)
    \/ \E t \in Tasks : WorkerWake(t)
    \/ \E t \in Tasks : WorkerSent(t)
    \/ \E t \in Tasks : Arrive(t)
    \/ \E t \in Tasks : GetBatchStatus(t)
    \/ \E t \in Tasks, exists \in BOOLEAN : DownloadResults(t, exists)

SpecApi == InitApi /\ [][NextApi]_vars

\* the same, in runs where a failure the code catches may happen
InitBatch == InitWith([tasks |-> MaxTasks, sockets |-> ApiSockets,
                       stages |-> LastStage, drops |-> 0,
                       beats |-> 0, casts |-> 0, faults |-> MaxFaults])
NextBatch ==
    \/ \E t \in Tasks : UploadExcel(t)
    \/ \E w \in Sockets, t \in Tasks : EndpointOpen(w, t)
    \/ \E w \in Sockets : EndpointAccept(w)
    \/ \E w \in Sockets : ConnectReplay(w)
    \/ \E w \in Sockets : EndpointConfirmed(w)
    \/ \E w \in Sockets : EndpointStatusSent(w)
    \/ \E t \in Tasks : WorkerWake(t)
    \/ \E t \in Tasks : WorkerSent(t)
SpecBatch == InitBatch /\ [][NextBatch]_vars

\* no upload, no connection: the hub stays as constructed
HubIdle == InitHub([tasks |-> 0, sockets |-> 0, stages |-> 0, drops |-> 0,
                    beats |-> 0, casts |-> 0])

InitVote ==
    /\ HubIdle
    /\ InitStore([calls |-> MaxCalls, threads |-> MaxThreads,
                  items |-> MaxItems, voters |-> MaxVoters])

\* the threads of the agents' handlers and of process_claim
NextVote ==
    \/ \E i \in Threads, c \in Items, a \in Voters, s \in VoteScores :
         UpdateCall(i, c, a, s)
    \/ \E i \in Threads : UpdateAcquire(i)
    \/ \E i \in Threads : UpdateStore(i)
    \/ \E i \in Threads : UpdateAppend(i)
    \/ \E i \in Threads, c \in Items : ConsensusCall(i, c)
    \/ \E i \in Threads : ConsensusAcquire(i)
    \/ \E i \in Threads : ConsensusRead(i)
    \/ \E i \in Threads : ConsensusReturn(i)

\* process_claim on one thread, its handlers voting during the chat, and
\* a second thread voting for the last agent at any time
ClaimScores == {0, 1000}
InitClaim ==
    /\ HubIdle
    /\ InitStore([calls |-> ClaimCalls, threads |-> MaxThreads,
                  items |-> MaxItems, voters |-> CONSENSUS_THRESHOLD,
                  jobs |-> MaxJobs])
NextClaim ==
    \/ \E i \in Threads, c \in Items : ProcessClaim(i, c)
    \/ \E i \in Threads, a \in Voters, s \in ClaimScores : HandlerVote(i, a, s)
    \/ \E i \in Threads, c \in Items, s \in ClaimScores :
         OtherVote(i, c, CONSENSUS_THRESHOLD, s)
    \/ \E i \in Threads : UpdateAcquire(i)
    \/ \E i \in Threads : UpdateStore(i)
    \/ \E i \in Threads : UpdateAppend(i)
    \/ \E i \in Threads : ClaimRaise(i)
    \/ \E i \in Threads : ClaimConsensus(i)
    \/ \E i \in Threads : ConsensusAcquire(i)
    \/ \E i \in Threads : ConsensusRead(i)
    \/ \E i \in Threads : ConsensusReturn(i)
    \/ \E i \in Threads : ClaimReport(i)
SpecClaim == InitClaim /\ [][NextClaim]_vars

SpecVote == InitVote /\ [][NextVote]_vars

\* one agent, votes and consensus reads on two claims
InitItems ==
    /\ HubIdle
    /\ InitStore([calls |-> PairCalls, threads |-> MaxThreads,
                  items |-> PairItems, voters |-> 1])

SpecItems == InitItems /\ [][NextVote]_vars

\* the scores of the latest votes of claim 1, in thousandths; Absent for
\* an agent that has not voted
TallyScores == {200, 699, 700, 750, 800, 900}
Absent == -1

RECURSIVE VotesOf(_, _)
\* the votes of the agents 1..n under f, in the order of the agents
VotesOf(f, n) ==
    IF n = 0 THEN <<>>
    ELSE IF f[n] = Absent THEN VotesOf(f, n - 1)
    ELSE Append(VotesOf(f, n - 1), Vote(1, n, f[n]))

\* the store after each of some agents has voted once on claim 1
InitTally ==
    /\ HubIdle
    /\ lock = 0
    /\ th = [i \in Threads |-> IdleThread]
    /\ quota = [calls |-> TallyCalls, threads |-> 1, items |-> 1, voters |-> 0]
    /\ \E f \in [1..TallyVoters -> TallyScores \cup {Absent}] :
         LET votes == VotesOf(f, TallyVoters) IN
         /\ history = votes
         /\ scores = IF votes = <<>> THEN EmptyDict
                     ELSE Put(EmptyDict, 1,
                              [i \in DOMAIN votes |->
                                 [agent |-> votes[i].agent,
                                  score |-> votes[i].score]])

\* process_claim reads the consensus
NextTally ==
    \/ \E i \in Threads, c \in Items : ConsensusCall(i, c)
    \/ \E i \in Threads : ConsensusAcquire(i)
    \/ \E i \in Threads : ConsensusRead(i)
    \/ \E i \in Threads : ConsensusReturn(i)

SpecTally == InitTally /\ [][NextTally]_vars

\* ------------------------------------------------------------ properties
Range(seq) == {seq[i] : i \in DOMAIN seq}
IsWorkerEvent(e) == e.src = "worker"
WorkerReceived(w) == SelectSeq(received[w], IsWorkerEvent)

\* the position of a worker event in the emission order of its task
EmitIndex(t, e) == CHOOSE i \in DOMAIN emitted[t] : emitted[t][i] = e

\* the events the worker of t emits in the step
NewlyEmitted(t) == SubSeq(emitted'[t], Len(emitted[t]) + 1, Len(emitted'[t]))

IsSuffix(s, seq) ==
    Len(s) <= Len(seq) /\ SubSeq(seq, Len(seq) - Len(s) + 1, Len(seq)) = s

\* no client has gone away: every send succeeds
NoSendFails == \A w \in Sockets : wsState[w] \notin {"DISCONNECTED", "BROKEN"}

\* a worker event is on its way: its send is suspended, or a replay has
\* yet to reach it
InFlight(t, e) ==
    \/ frame[<<"wk", t>>].data = e /\ frame[<<"wk", t>>] # NoFrame
    \/ \E w \in Sockets :
         /\ ep[w] = "replay" /\ wsTask[w] = t
         /\ \E i \in ridx[w]..Len(rlist[w]) : rlist[w][i] = e

\* C1: as long as every send succeeds, an observer gets each worker event
\* at most once, the events that were buffered when it connected before
\* every event emitted later, and every emitted event is delivered, still
\* buffered, or on its way.
C1_ReplayThenLive ==
    NoSendFails =>
      /\ \A w \in Sockets :
           LET r == WorkerReceived(w) IN
           /\ \A i, j \in DOMAIN r : i # j => r[i] # r[j]
           /\ \A i, j \in DOMAIN r :
                (i < j /\ r[j] \in Range(rstart[w])) => r[i] \in Range(rstart[w])
      /\ \A t \in Tasks : \A i \in DOMAIN emitted[t] :
           LET e == emitted[t][i] IN
           \/ \E w \in Sockets : e \in Range(received[w])
           \/ t \in DOMAIN pending_updates /\ e \in Range(pending_updates[t])
           \/ InFlight(t, e)

\* C2: the worker events an observer has received are in emission order.
C2_EmissionOrder ==
    \A w \in Sockets :
        LET r == WorkerReceived(w) IN
        \A i, j \in DOMAIN r :
            i < j => EmitIndex(wsTask[w], r[i]) <= EmitIndex(wsTask[w], r[j])

\* C3: a buffer never holds more than 10 events, and it is exactly the
\* last min(n, 10) of the n events stored since the entry was made.
C3_LastTenBuffered ==
    \A t \in DOMAIN pending_updates :
        /\ Len(pending_updates[t]) <= PendingCap
        /\ pending_updates[t] = LastN(buffered[t], PendingCap)

\* the oldest stored events have been dropped from a full buffer
C3_Witness ==
    \E t \in DOMAIN pending_updates :
        /\ Len(buffered[t]) > PendingCap
        /\ Len(pending_updates[t]) = PendingCap
        /\ \E i \in DOMAIN pending_updates[t] : IsWorkerEvent(pending_updates[t][i])

\* the send_text a caller was suspended in has returned in this step (a
\* cancelled heartbeat has not: its send was abandoned)
SendReturned(c) ==
    /\ frame[c] # NoFrame
    /\ frame'[c] # frame[c]
    /\ ~(c[1] = "hb" /\ hb'[c[2]] = "done")

\* the send raised
SendFailed(c) == SendReturned(c) /\ wsState[frame[c].ws] # "CONNECTED"

Stored(t, e) ==
    t \in DOMAIN pending_updates' /\ e \in Range(pending_updates'[t])

\* C4: an emit whose send fails stores the event (unless it is a
\* heartbeat) and removes the registration of the task in the same step;
\* an emit of the worker that finds no observer, or a socket that is not
\* CONNECTED, stores the event, and then the task has no registration.
C4_FallbackToBuffer ==
    [][/\ \A c \in Callers :
            SendFailed(c) =>
              /\ frame[c].data.type # "heartbeat"
                    => Stored(frame[c].task, frame[c].data)
              /\ frame[c].task \notin DOMAIN active_connections'
       /\ \A t \in Tasks :
            LET new == NewlyEmitted(t)
                f == frame'[<<"wk", t>>]
            IN /\ \A i \in DOMAIN new :
                    \/ Stored(t, new[i])
                    \/ i = Len(new) /\ f # NoFrame /\ f.data = new[i]
               /\ ( /\ new # <<>>
                    /\ frame[<<"wk", t>>] = NoFrame
                    /\ \/ t \notin DOMAIN active_connections
                       \/ ~ClientStateConnected(wsState[active_connections[t]]) )
                  => /\ \A i \in DOMAIN new : Stored(t, new[i])
                     /\ f = NoFrame
                     /\ t \notin DOMAIN active_connections'
      ]_vars

\* a send to the registered observer failed: the event is buffered and the
\* task has no observer, while no endpoint has closed
C4_Witness ==
    \E w \in Sockets :
        /\ wsState[w] = "BROKEN"
        /\ lastConnected[wsTask[w]] = w
        /\ ep[w] = "ping"
        /\ \A x \in Sockets : ep[x] # "done"
        /\ wsTask[w] \notin DOMAIN active_connections
        /\ wsTask[w] \in DOMAIN pending_updates
        /\ \E i \in DOMAIN pending_updates[wsTask[w]] :
             IsWorkerEvent(pending_updates[wsTask[w]][i])

\* connect() of w returns in this step
ConnectReturns(w) ==
    ep[w] \in {"accept", "replay"} /\ ep'[w] \in {"ce", "snap", "ping"}

\* C5: a connect() during which no emit ran and no send failed, and which
\* still is the registered observer when it returns, has delivered exactly
\* the buffer it found, in order, and leaves the task without an entry.
C5_ReplayThenClear ==
    [][\A w \in Sockets :
         ( /\ ConnectReturns(w)
           /\ rquiet'[w]
           /\ wsState'[w] = "CONNECTED"
           /\ wsTask'[w] \in DOMAIN active_connections'
           /\ active_connections'[wsTask'[w]] = w )
         => /\ received'[w] = rstart'[w]
            /\ wsTask'[w] \notin DOMAIN pending_updates'
      ]_vars

\* an undisturbed connect() has replayed a buffer of worker events
C5_Witness ==
    \E w \in Sockets :
        /\ ep[w] = "ce"
        /\ rquiet[w]
        /\ Len(rstart[w]) >= 2
        /\ received[w] = rstart[w]
        /\ wsTask[w] \notin DOMAIN pending_updates

\* the send of a buffered update raises in this step of connect()
ReplayFails(w) ==
    ep[w] = "replay" /\ ep'[w] # "replay" /\ wsState[w] # "CONNECTED"

\* C6: when a send fails during the replay, the buffered events that were
\* not delivered stay in the buffer.
C6_KeptOnFailedReplay ==
    [][\A w \in Sockets :
         ReplayFails(w) =>
           \A i \in ridx[w]..Len(rlist[w]) : Stored(wsTask[w], rlist[w][i])
      ]_vars

\* the task has been disconnected and no connect() has run since
Disconnected(t) ==
    \/ t \notin DOMAIN active_connections
    \/ lastConnected[t] # 0 /\ ep[lastConnected[t]] = "done"

\* C7: every event the worker emits while its task is disconnected goes to
\* the end of the buffer, and none of them is sent to a socket.
C7_BufferedAfterDisconnect ==
    [][\A t \in Tasks :
         (Disconnected(t) /\ NewlyEmitted(t) # <<>>)
         => /\ t \in DOMAIN pending_updates'
            /\ IsSuffix(NewlyEmitted(t), pending_updates'[t])
            /\ frame'[<<"wk", t>>] = NoFrame
            /\ \A w \in Sockets : \A i \in DOMAIN NewlyEmitted(t) :
                 NewlyEmitted(t)[i] \notin Range(received'[w])
      ]_vars

\* an observer came and went without any failed send, and worker events
\* emitted after it left are in the buffer
C7_Witness ==
    /\ NoSendFails
    /\ \E w \in Sockets :
         /\ ep[w] = "done"
         /\ received[w] # <<>>
         /\ \A x \in Sockets : ep[x] \in {"done", "new"}
         /\ wsTask[w] \in DOMAIN pending_updates
         /\ \E i \in DOMAIN pending_updates[wsTask[w]] :
              IsWorkerEvent(pending_updates[wsTask[w]][i])

\* C8: no buffer ever holds a heartbeat.
C8_NoHeartbeatBuffered ==
    \A t \in DOMAIN pending_updates :
        \A i \in DOMAIN pending_updates[t] :
            pending_updates[t][i].type # "heartbeat"

\* a heartbeat that could not be delivered was dropped: it made the entry
\* and left it empty
C8_Witness ==
    \E t \in DOMAIN pending_updates :
        /\ pending_updates[t] = <<>>
        /\ \/ lim.beats < CastBeats
           \/ (bc.data = Pulse /\ bc.failed # <<>>)

\* C9: connect() registers its socket, and every send that begins goes to
\* the socket of the latest connect() of its task, never to an earlier one.
C9_LatestObserver ==
    [][/\ \A w \in Sockets :
            (ep[w] = "accept" /\ ep'[w] \notin {"accept", "crashed"})
            => /\ lastConnected'[wsTask[w]] = w
               /\ wsState'[w] = "CONNECTED"
               /\ wsTask[w] \in DOMAIN active_connections'
               /\ active_connections'[wsTask[w]] = w
       /\ \A c \in Callers :
            (frame'[c] # NoFrame /\ frame'[c] # frame[c])
            => frame'[c].ws = lastConnected'[frame'[c].task]
      ]_vars

\* the second observer of a task has replaced the first, which is still
\* open, and has got a worker event that was sent live
C9_Witness ==
    \E t \in DOMAIN active_connections :
        /\ active_connections[t] = 2
        /\ wsTask[1] = t
        /\ ep[1] = "ping"
        /\ wsState[1] = "CONNECTED"
        /\ \E i \in DOMAIN received[2] :
             /\ IsWorkerEvent(received[2][i])
             /\ received[2][i] \notin Range(rstart[2])

\* the broadcast ends in this step (it returns, or an exception leaves it)
BroadcastEnds ==
    /\ (bc.at = "send" \/ lim.casts' # lim.casts)
    /\ bc'.at \in {"idle", "crashed"}

\* C10: a broadcast has tried every observer that was connected when it
\* began; every task whose delivery failed has the event buffered (unless
\* heartbeat) and no longer has that observer; the others keep theirs.
C10_BroadcastIsolatesFailures ==
    [][BroadcastEnds =>
         /\ \A t \in DOMAIN bc'.start : bc'.start[t] \in bc'.tried
         /\ \A i \in DOMAIN bc'.failed :
              LET t == bc'.failed[i] IN
              /\ bc'.data.type # "heartbeat" => Stored(t, bc'.data)
              /\ t \notin DOMAIN active_connections'
         /\ \A t \in DOMAIN active_connections :
              t \notin Range(bc'.failed) =>
                /\ t \in DOMAIN active_connections'
                /\ active_connections'[t] = active_connections[t]
      ]_vars

\* the send_text of a heartbeat of schedule w returns in this step, the
\* heartbeat delivered
HeartbeatDelivered(w) ==
    /\ hb[w] = "send" /\ hb'[w] = "sleep"
    /\ frame[<<"hb", w>>] # NoFrame
    /\ frame'[<<"hb", w>>] = NoFrame
    /\ LET x == frame[<<"hb", w>>].ws
       IN received'[x] = Append(received[x], frame[<<"hb", w>>].data)

\* C11: once disconnect() has removed the registration of an observer, no
\* heartbeat of the schedule started for that observer is delivered to
\* another observer of the task (one that connected later).
C11_HeartbeatEndsWithObserver ==
    [][\A w \in Sockets :
         (w \in unregistered /\ HeartbeatDelivered(w))
         => frame[<<"hb", w>>].ws = w
      ]_vars

\* the step leaves the registration, the buffer and the sockets of task u
\* as they were
Untouched(u) ==
    /\ (u \in DOMAIN active_connections) = (u \in DOMAIN active_connections')
    /\ u \in DOMAIN active_connections
          => active_connections'[u] = active_connections[u]
    /\ (u \in DOMAIN pending_updates) = (u \in DOMAIN pending_updates')
    /\ u \in DOMAIN pending_updates => pending_updates'[u] = pending_updates[u]
    /\ \A w \in Sockets :
         wsTask[w] = u => received'[w] = received[w] /\ sendq'[w] = sendq[w]
    /\ wk'[u] = wk[u]
    /\ (u \in DOMAIN batch_tasks) = (u \in DOMAIN batch_tasks')
    /\ u \in DOMAIN batch_tasks => batch_tasks'[u] = batch_tasks[u]

\* C12: when the send of a worker's update fails, send_progress_update
\* returns to the worker, which goes on with the stage that follows (it
\* does not enter its error handler), and nothing of another task changes.
C12_SendFailureStaysLocal ==
    [][\A t \in Tasks :
         SendFailed(<<"wk", t>>) =>
           LET k == wk[t].stage
               new == NewlyEmitted(t)
           IN /\ IF k = LastStage
                 THEN /\ wk'[t] = [stage |-> k, at |-> "done"]
                      /\ new = <<>>
                      /\ batch_tasks'[t].status =
                           IF frame[<<"wk", t>>].data.type = "completed"
                           THEN "completed" ELSE "failed"
                 ELSE /\ wk'[t].stage = k + Len(new) + (IF wk'[t].at = "send" THEN 0 ELSE 1)
                      /\ wk'[t].at \in {"sleep", "send", "done"}
                      /\ \A i \in DOMAIN new :
                           k + i < LastStage => new[i] = WorkerEvent(t, k + i, TRUE)
              /\ \A u \in Tasks \ {t} : Untouched(u)
      ]_vars

\* the send of the first update of task 1 failed and its worker went on to
\* its sleep, while the observer of task 2 has received updates of task 2
C12_Witness ==
    \E w1, w2 \in Sockets :
        /\ wsTask[w1] = 1 /\ wsTask[w2] = 2
        /\ wsState[w1] = "BROKEN"
        /\ \A x \in Sockets : ep[x] \notin {"done", "cancel"}
        /\ received[w1] = <<ConnectionEstablished(1), StatusSnapshot(1, NewTask)>>
        /\ 1 \in DOMAIN pending_updates
        /\ pending_updates[1] = <<WorkerEvent(1, 1, TRUE), WorkerEvent(1, 2, TRUE),
                                  WorkerEvent(1, 3, TRUE)>>
        /\ wk[1] = [stage |-> 4, at |-> "sleep"]
        /\ 2 \in DOMAIN active_connections /\ active_connections[2] = w2
        /\ WorkerEvent(2, 3, TRUE) \in Range(received[w2])

Terminal(t) ==
    t \in DOMAIN batch_tasks /\ batch_tasks[t].status \in {"completed", "failed"}

\* C13: every task that was started reaches status completed or failed,
\* whatever its observers do.
C13_TaskTerminates ==
    \A t \in Tasks : (t \in DOMAIN batch_tasks) ~> Terminal(t)

\* a task has ended although the send of an update to its observer failed
\* and the update went to the buffer
C13_Witness ==
    \E w \in Sockets :
        /\ wsTask[w] = 1
        /\ wsState[w] = "BROKEN"
        /\ Terminal(1)
        /\ wk[1].at = "done"
        /\ ConnectionEstablished(1) \in Range(received[w])
        /\ \E i \in DOMAIN emitted[1] :
             /\ emitted[1][i] \notin Range(received[w])
             /\ emitted[1][i].progress >= 30

\* get_consensus of thread i has returned
Answered(i) == th[i].pc = "idle" /\ th[i].op = "consensus"

\* the agents with a vote on claim c among the first n votes recorded
VotersOf(c, n) == {history[p].agent : p \in {q \in 1..n : history[q].claim_id = c}}

\* the score of the last vote of agent a on claim c among the first n
LatestVote(c, a, n) ==
    LET ps == {p \in 1..n : history[p].claim_id = c /\ history[p].agent = a}
    IN history[CHOOSE p \in ps : \A q \in ps : q <= p].score

\* the number of agents whose latest vote on the claim get_consensus of
\* thread i was asked about is at least 0.7, as of the moment it read
Supporters(i) ==
    Cardinality({a \in VotersOf(th[i].claim_id, th[i].hist) :
                   LatestVote(th[i].claim_id, a, th[i].hist) >= FRAUD_THRESHOLD})

\* C14: get_consensus returns True exactly when at least 3 agents have a
\* latest score of 0.7 or more on the claim, and fraud_count is the number
\* of those agents.
C14_QuorumOfSupporters ==
    \A i \in Threads :
        Answered(i) =>
          /\ th[i].ret.ok = (Supporters(i) >= CONSENSUS_THRESHOLD)
          /\ th[i].had => /\ ~th[i].ret.detail.empty
                          /\ th[i].ret.detail.fraud_count = Supporters(i)

\* consensus is reached with exactly three supporters, one of them at the
\* threshold itself, the fourth agent just below it
C14_Witness ==
    \E i \in Threads :
        /\ Answered(i)
        /\ th[i].ret.ok
        /\ th[i].ret.detail.fraud_count = 3
        /\ \E a, b \in Keys(th[i].ret.detail.scores) :
             /\ Lookup(th[i].ret.detail.scores, a) = FRAUD_THRESHOLD
             /\ Lookup(th[i].ret.detail.scores, b) = FRAUD_THRESHOLD - 1

\* update_score of thread i is called in this step
UpdateCalled(i) ==
    /\ quota'.calls # quota.calls
    /\ th'[i] # th[i]
    /\ th'[i].op = "vote"

\* C15: update_score with a score outside [0, 1] returns False at once and
\* leaves self.scores and self.history as they were.
C15_InvalidScoreRejected ==
    [][\A i \in Threads :
         (UpdateCalled(i) /\ (th'[i].score < 0 \/ th'[i].score > 1000))
         => /\ th'[i].pc = "idle"
            /\ ~th'[i].ret.ok
            /\ scores' = scores
            /\ history' = history
      ]_vars

\* a vote below 0 and a vote above 1 of an agent have been rejected after
\* a vote of that agent on the same claim was recorded, which stands
C15_Witness ==
    \E i \in Threads :
        /\ th[i].pc = "idle"
        /\ Len(th[i].log) = 3
        /\ th[i].log[1].ok /\ th[i].log[1].op = "vote"
        /\ th[i].log[2] = [th[i].log[1] EXCEPT !.score = -1, !.ok = FALSE, !.seen = 1]
        /\ th[i].log[3] = [th[i].log[1] EXCEPT !.score = 1001, !.ok = FALSE, !.seen = 1]
        /\ history = <<Vote(th[i].log[1].claim_id, th[i].log[1].agent, th[i].log[1].score)>>
        /\ Len(scores[th[i].log[1].claim_id]) = 1

\* update_score of thread i has returned
Voted(i) == th[i].pc = "idle" /\ th[i].op = "vote"

\* the votes on the claim of thread i's get_consensus that had been
\* recorded, and their update_score had returned, when it was called
SeenVotes(i) ==
    {p \in 1..th[i].seen : history[p].claim_id = th[i].claim_id}

\* C16: update_score succeeds for every score of [0, 1], 0 and 1 included,
\* and a get_consensus called after it returned shows the score under its
\* agent, or the score of a vote of that agent on the claim recorded later.
C16_VoteVisible ==
    \A i \in Threads :
        /\ (Voted(i) /\ 0 <= th[i].score /\ th[i].score <= 1000) => th[i].ret.ok
        /\ Answered(i) =>
             \A p \in SeenVotes(i) :
                 LET d == th[i].ret.detail IN
                 /\ ~d.empty
                 /\ Cardinality(Entries(d.scores, history[p].agent)) = 1
                 /\ \/ Lookup(d.scores, history[p].agent) = history[p].score
                    \/ \E q \in (p + 1)..Len(history) :
                         /\ history[q].claim_id = history[p].claim_id
                         /\ history[q].agent = history[p].agent
                         /\ history[q].score = Lookup(d.scores, history[p].agent)

\* a get_consensus called after a vote of 0 had returned shows the vote
\* of 1 the agent recorded, from another thread, before it read
C16_Witness ==
    \E i, j \in Threads :
        /\ i # j
        /\ Answered(i)
        /\ th[i].seen = 1
        /\ th[i].hist = 2
        /\ history[1] = Vote(th[i].claim_id, history[1].agent, 0)
        /\ history[2] = Vote(th[i].claim_id, history[1].agent, 1000)
        /\ Lookup(th[i].ret.detail.scores, history[1].agent) = 1000
        /\ Voted(j) /\ th[j].ret.ok /\ th[j].seen = 1

IsRecorded(e) == e.op = "vote" /\ e.ok

RECURSIVE AsVotes(_)
AsVotes(log) ==
    IF log = <<>> THEN <<>>
    ELSE <<Vote(log[1].claim_id, log[1].agent, log[1].score)>> \o AsVotes(Tail(log))

\* the votes of thread i that update_score has accepted, in the order of
\* the calls
Recorded(i) == AsVotes(SelectSeq(th[i].log, IsRecorded))

RECURSIVE IsSubseq(_, _)
IsSubseq(s, t) ==
    IF s = <<>> THEN TRUE
    ELSE IF t = <<>> THEN FALSE
    ELSE IF Head(s) = Head(t) THEN IsSubseq(Tail(s), Tail(t))
    ELSE IsSubseq(s, Tail(t))

RECURSIVE CountRecorded(_)
CountRecorded(n) == IF n = 0 THEN 0 ELSE Len(Recorded(n)) + CountRecorded(n - 1)

\* C17: self.scores never has two entries of one agent under a claim; when
\* no vote is being written, the entry of an agent is the last vote of the
\* agent on the claim in the history; and the history has every accepted
\* vote once, those of one caller in the order of the calls.
C17_RevoteOverwrites ==
    /\ \A c \in DOMAIN scores : \A a \in Voters :
         Cardinality(Entries(scores[c], a)) <= 1
    /\ lock = 0 =>
         \A c \in Items : \A a \in Voters :
             IF a \in VotersOf(c, Len(history))
             THEN /\ c \in DOMAIN scores
                  /\ Cardinality(Entries(scores[c], a)) = 1
                  /\ Lookup(scores[c], a) = LatestVote(c, a, Len(history))
             ELSE c \in DOMAIN scores => Entries(scores[c], a) = {}
    /\ \A i \in Threads : IsSubseq(Recorded(i), history)
    /\ Len(history) = CountRecorded(MaxThreads)

\* an agent has voted 0 and then 1 on a claim: one entry, with 1, and the
\* two votes in the history
C17_Witness ==
    \E i \in Threads, c \in Items, a \in Voters :
        /\ th[i].pc = "idle"
        /\ Recorded(i) = <<Vote(c, a, 0), Vote(c, a, 1000)>>
        /\ history = Recorded(i)
        /\ scores[c] = <<[agent |-> a, score |-> 1000]>>

\* the counts of a detail are those of the scores it returns: fraud_count
\* counts the scores of 0.7 or more, average_score and max_score are within
\* half a hundredth of their mean and of the largest of them
CountsOf(d) ==
    /\ d.fraud_count = Cardinality({k \in DOMAIN d.scores :
                                      d.scores[k].score >= FRAUD_THRESHOLD})
    /\ d.scores # <<>>
    /\ 2 * Abs(SumScores(d.scores) - 10 * d.average_score * Len(d.scores))
         <= 10 * Len(d.scores)
    /\ \E k \in DOMAIN d.scores :
         /\ \A x \in DOMAIN d.scores : d.scores[x].score <= d.scores[k].score
         /\ 2 * Abs(d.scores[k].score - 10 * d.max_score) <= 10

\* C18: the scores get_consensus returns are the latest votes of the claim
\* as they stood at one moment, that of taking the lock, whatever
\* update_score calls run beside it, and the counts it returns are those
\* of the returned scores; while it reads, the votes of the claim stay as
\* they were at that moment.
C18_OneSnapshot ==
    \A i \in Threads :
        /\ th[i].pc = "read" =>
             /\ scores[th[i].claim_id] = th[i].snap
             /\ th[i].simple_scores = SubSeq(th[i].snap, 1, th[i].idx - 1)
        /\ (Answered(i) /\ th[i].had) =>
             /\ ~th[i].ret.detail.empty
             /\ th[i].ret.detail.scores = th[i].snap
             /\ CountsOf(th[i].ret.detail)

\* get_consensus is reading the two votes of a claim, the first of them
\* read, while update_score of another thread waits for the lock with a
\* different score for the agent whose vote has been read
C18_Witness ==
    \E i, j \in Threads :
        /\ th[i].pc = "read" /\ th[i].idx = 2 /\ Len(th[i].snap) = 2
        /\ th[j].pc = "acquire" /\ th[j].op = "vote"
        /\ th[j].claim_id = th[i].claim_id
        /\ th[j].agent = th[i].simple_scores[1].agent
        /\ th[j].score # th[i].simple_scores[1].score

\* get_consensus of thread i has returned a detail over the votes it found
Tallied(i) == Answered(i) /\ th[i].had /\ ~th[i].ret.detail.empty

\* the votes of the example: agents 1 to 4 at 0.8, 0.75, 0.9 and 0.2
ExampleVotes ==
    <<[agent |-> 1, score |-> 800], [agent |-> 2, score |-> 750],
      [agent |-> 3, score |-> 900], [agent |-> 4, score |-> 200]>>

\* C19 as stated: average_score is the exact mean of the returned scores
\* and max_score their maximum (both in hundredths here, the scores in
\* thousandths).
C19_ExactMean ==
    \A i \in Threads :
        Tallied(i) =>
          LET d == th[i].ret.detail IN
          /\ 10 * d.average_score * Len(d.scores) = SumScores(d.scores)
          /\ 10 * d.max_score = MaxScore(d.scores)

\* C19, amended: average_score is the mean of the returned scores rounded
\* to two decimals and max_score their maximum rounded to two decimals;
\* for the votes 0.8, 0.75, 0.9, 0.2 the result is True with fraud_count 3,
\* average_score 0.66 and max_score 0.9.
C19_RoundedMean ==
    \A i \in Threads :
        Tallied(i) =>
          LET d == th[i].ret.detail IN
          /\ 2 * Abs(SumScores(d.scores) - 10 * d.average_score * Len(d.scores))
               <= 10 * Len(d.scores)
          /\ 2 * Abs(MaxScore(d.scores) - 10 * d.max_score) <= 10
          /\ d.scores = ExampleVotes =>
               /\ th[i].ret.ok
               /\ d.fraud_count = 3
               /\ d.average_score = 66
               /\ d.max_score = 90

\* get_consensus has returned for the votes of the example
C19_Witness ==
    \E i \in Threads :
        /\ Tallied(i)
        /\ th[i].ret.detail.scores = ExampleVotes
        /\ th[i].ret.detail.average_score = 66

\* C20: get_consensus for a claim without any recorded vote returns False
\* with the empty dict, also when votes on the claim have been rejected.
C20_NoVotesNoConsensus ==
    \A i \in Threads :
        (Answered(i) /\ VotersOf(th[i].claim_id, th[i].hist) = {})
        => th[i].ret = Result(FALSE, NoDetail)

\* a thread had a vote of 1.001 on a claim rejected and then asked for the
\* consensus of the claim, which has no vote, and got False and {} while
\* the other thread was about to record the first vote
C20_Witness ==
    \E i, j \in Threads :
        /\ i # j
        /\ Answered(i)
        /\ Len(th[i].log) = 2
        /\ th[i].log[1].op = "vote" /\ ~th[i].log[1].ok
        /\ th[i].log[1].score = 1001
        /\ th[i].log[1].claim_id = th[i].claim_id
        /\ th[i].ret = Result(FALSE, NoDetail)
        /\ history = <<>>
        /\ th[j].pc = "acquire" /\ th[j].op = "vote"
        /\ th[j].claim_id = th[i].claim_id

\* update_score of thread i stands at `with self.lock:` and the lock is held
Waiting(i) == th[i].pc = "acquire" /\ th[i].op = "vote" /\ lock # 0

\* C21: update_score for a claim never waits for a call that works on
\* another claim.
C21_NoWaitAcrossItems ==
    \A i \in Threads :
        Waiting(i) => th[lock].claim_id = th[i].claim_id

\* C22: the progress stored for a task never goes down, from the upload to
\* the end of the run, and a completed task has progress 100.
C22_ProgressMonotone ==
    [][\A t \in DOMAIN batch_tasks :
         /\ t \in DOMAIN batch_tasks'
         /\ batch_tasks'[t].progress >= batch_tasks[t].progress
         /\ batch_tasks'[t].status = "completed" => batch_tasks'[t].progress = 100
      ]_vars

\* a run has failed in process_excel and the task keeps the progress of
\* the last processing step
C22_Witness ==
    \E t \in DOMAIN batch_tasks :
        /\ batch_tasks[t].status = "failed"
        /\ batch_tasks[t].progress = StageProgress[LastStage - 1]
        /\ wk[t].at = "done"

\* C23: once the status of a task is completed or failed, no step changes
\* its status, output_path, error or completed_at.
C23_TerminalIsFinal ==
    [][\A t \in DOMAIN batch_tasks :
         Terminal(t) =>
           /\ t \in DOMAIN batch_tasks'
           /\ batch_tasks'[t].status = batch_tasks[t].status
           /\ batch_tasks'[t].output_path = batch_tasks[t].output_path
           /\ batch_tasks'[t].error = batch_tasks[t].error
           /\ batch_tasks'[t].completed_at = batch_tasks[t].completed_at
      ]_vars

\* an observer has connected to a task that had failed and has been sent
\* its status: steps were taken after the terminal state was entered
C23_Witness ==
    \E w \in Sockets :
        /\ wsTask[w] \in DOMAIN batch_tasks
        /\ batch_tasks[wsTask[w]].status = "failed"
        /\ batch_tasks[wsTask[w]].completed_at = 1
        /\ ErrorEv(wsTask[w], ErrorText, "endpoint") \in Range(received[w])

\* an assignment to batch_tasks was made in this step
Assigned == reply' # reply /\ reply'.op \in {"set_status", "set_progress"}

\* C24: an assignment that would take a task out of a terminal status, or
\* lower its progress, fails and leaves the task as it was.
C24_MisuseRejected ==
    [][(Assigned /\ reply'.task_id \in DOMAIN batch_tasks) =>
         LET t == reply'.task_id
             misuse ==
                \/ /\ reply'.op = "set_status"
                   /\ Terminal(t)
                   /\ reply'.arg # batch_tasks[t].status
                \/ /\ reply'.op = "set_progress"
                   /\ reply'.arg < batch_tasks[t].progress
         IN misuse => /\ reply'.code # "ok"
                      /\ batch_tasks'[t] = batch_tasks[t]
      ]_vars

\* a task entry is whole: completed with its output_path, failed with its
\* error, and never with both
Whole(task) ==
    /\ task.status = "completed" => task.output_path # 0
    /\ task.status = "failed" => task.error # 0
    /\ ~(task.output_path # 0 /\ task.error # 0)

\* C25: every entry of batch_tasks is whole in every state a request can
\* be served in, and so is every entry get_batch_status has returned; a
\* download that succeeds returns the output_path of the task.
C25_NoHalfUpdate ==
    /\ \A t \in DOMAIN batch_tasks : Whole(batch_tasks[t])
    /\ (reply.op = "status" /\ reply.code = "ok") => Whole(reply.body)
    /\ (reply.op = "download" /\ reply.code = "ok") => reply.file # 0

\* get_batch_status has returned the task, still processing, while the
\* worker was suspended in the send of its error update
C25_Witness ==
    /\ reply.op = "status" /\ reply.code = "ok"
    /\ reply.body.status = "processing"
    /\ reply.body.progress = StageProgress[LastStage - 1]
    /\ wk[reply.task_id] = [stage |-> LastStage, at |-> "send"]
    /\ frame[<<"wk", reply.task_id>>].data.type = "error"

\* ---------------------------------------------------------------- C26
\* the worker of task t is scheduled and has not run its first step
Scheduled(t) == wk[t] = [stage |-> 1, at |-> "sleep"]

\* this step is a submission that returns identifier t
Submits(t) == wk'[t] # wk[t] /\ Scheduled(t)'

Downloads == reply' # reply /\ reply'.op = "download"

\* C27: a request for the results of a task is answered with the output
\* only when that task is completed at the time of the request; for an
\* unknown identifier the answer is not-found, for a task that is
\* processing or failed it is task-not-completed, and an answer other
\* than the output carries no output.
C27_OutputOnlyWhenCompleted ==
    [][Downloads =>
         LET t == reply'.task_id IN
         /\ reply'.code = "ok" =>
              /\ t \in DOMAIN batch_tasks
              /\ batch_tasks[t].status = "completed"
              /\ reply'.file = batch_tasks[t].output_path
              /\ reply'.file # 0
         /\ reply'.code # "ok" => reply'.file = 0
         /\ t \notin DOMAIN batch_tasks => reply'.code = "not_found"
         /\ (t \in DOMAIN batch_tasks
               /\ batch_tasks[t].status \in {"processing", "failed"})
              => reply'.code = "not_completed"]_vars

\* the results of a failed task were requested and refused
C27_Witness ==
    /\ reply.op = "download"
    /\ reply.code = "not_completed"
    /\ reply.task_id \in DOMAIN batch_tasks
    /\ batch_tasks[reply.task_id].status = "failed"
    /\ wk[reply.task_id].at = "done"

\* ---------------------------------------------------------------- C28
\* the positions of the terminal events among the events the worker of t
\* has emitted
TerminalEvents(t) ==
    {i \in DOMAIN emitted[t] : emitted[t][i].type \in {"completed", "error"}}

\* C28: the worker of a task emits at most one terminal event (completed
\* or error) and no event after it, and a worker that has returned has
\* emitted exactly one.
C28_OneTerminalEvent ==
    \A t \in Tasks :
        /\ Cardinality(TerminalEvents(t)) <= 1
        /\ TerminalEvents(t) \subseteq {Len(emitted[t])}
        /\ wk[t].at = "done" => Cardinality(TerminalEvents(t)) = 1

\* the worker has returned after a run that failed, with every progress
\* event and then the error event emitted
C28_Witness ==
    /\ wk[1].at = "done"
    /\ Len(emitted[1]) = LastStage
    /\ emitted[1][LastStage].type = "error"
    /\ batch_tasks[1].status = "failed"

\* ---------------------------------------------------------------- C29
\* this step answers a status query
Queries == reply' # reply /\ reply'.op = "status"

\* the status a terminal event announces
Announced(e) == IF e.type = "completed" THEN "completed" ELSE "failed"

\* C29: a status query answered after an observer has received the
\* terminal event of the task returns the status that event announced,
\* with a result reference if it is completed; it does not report
\* processing.
C29_QueryAfterTerminalEvent ==
    [][Queries =>
         \A e \in arrived :
             e.task_id = reply'.task_id =>
                 /\ reply'.code = "ok"
                 /\ reply'.body.status = Announced(e)
                 /\ (e.type = "completed" => reply'.body.output_path # 0)]_vars

\* ---------------------------------------------------------------- C30
\* the error events the worker of t has emitted: the handler
\* `except Exception` has run, a step of the run raised
ErrorEvents(t) ==
    {emitted[t][i] : i \in {j \in DOMAIN emitted[t] : emitted[t][j].type = "error"}}

ExternalFailed(t) == ext[t] # {} \/ ErrorEvents(t) # {}

\* C31: no task is completed in a run in which the read of the batch
\* source, the item scorer or the write of the results failed.
C31_ExternalFailureFails ==
    \A t \in DOMAIN batch_tasks :
        ExternalFailed(t) => batch_tasks[t].status # "completed"

\* ---------------------------------------------------------------- C32
\* the positions of the events of t that carry a percentage
Percents(t) ==
    {i \in DOMAIN emitted[t] : emitted[t][i].type \in {"progress", "completed"}}

\* C32: the events the worker of a task emits begin with a progress event
\* at 0, the percentages of its progress and completed events never go
\* down, and a completed event carries 100 and comes after a progress
\* event with a percentage above 0.
C32_EventSequence ==
    \A t \in Tasks :
        LET e == emitted[t] IN
        /\ e # <<>> => (e[1].type = "progress" /\ e[1].progress = 0)
        /\ \A i, j \in Percents(t) : i < j => e[i].progress <= e[j].progress
        /\ \A j \in DOMAIN e :
             e[j].type = "completed" =>
                 /\ e[j].progress = 100
                 /\ \E i \in 1..(j - 1) :
                      e[i].type = "progress" /\ e[i].progress > 0

\* a run has emitted every progress event and the completed event
C32_Witness ==
    /\ Len(emitted[1]) = LastStage
    /\ emitted[1][LastStage].type = "completed"
    /\ emitted[1][LastStage - 1].progress = StageProgress[LastStage - 1]

\* ---------------------------------------------------------------- C33
\* observer w is connected to the stream of an existing task, its handler
\* is running and no later observer has connected for the task
Stays(w) ==
    /\ wsState[w] = "CONNECTED"
    /\ ep[w] \in {"replay", "ce", "snap", "ping"}
    /\ wsTask[w] \in DOMAIN batch_tasks
    /\ lastConnected[wsTask[w]] = w

\* w has received a terminal message of its task
GotTerminal(w) ==
    \E i \in DOMAIN received[w] :
        /\ received[w][i].type \in {"completed", "error"}
        /\ received[w][i].task_id = wsTask[w]

\* C33: an observer that connects to the stream of an existing task and
\* stays connected, unreplaced, eventually receives a completed or error
\* message for the task, whenever it connected.
C33_ObserverGetsTerminal ==
    \A w \in Sockets : Stays(w) ~> (GotTerminal(w) \/ ~Stays(w))

\* ---------------------------------------------------------------- C34
\* C34: no task has a registered observer and a buffer of pending updates
\* at the same time.
C34_BufferOrObserver ==
    \A t \in Tasks :
        ~(t \in DOMAIN active_connections /\ t \in DOMAIN pending_updates)

\* ---------------------------------------------------------------- C35
\* the get_consensus calls thread i has made and that have returned
Reads(i) == {k \in DOMAIN th[i].log : th[i].log[k].op = "consensus"}

\* C35: the decision of a finished process_claim is REJECT exactly when
\* its get_consensus call on the item returned True and APPROVE exactly
\* when it returned False, and it is ERROR exactly when the processing
\* raised, which is before any get_consensus call.
C35_DecisionFoldsConsensus ==
    \A i \in Threads :
        th[i].job = "done" =>
            LET r == th[i].report
                log == th[i].log
            IN /\ r.decision \in {"REJECT", "APPROVE", "ERROR"}
               /\ r.decision = "ERROR" <=> Reads(i) = {}
               /\ r.decision # "ERROR" =>
                    /\ Reads(i) = {Len(log)}
                    /\ log[Len(log)].claim_id = th[i].item
                    /\ r.decision = "REJECT" <=> log[Len(log)].ok
                    /\ r.decision = "APPROVE" <=> ~log[Len(log)].ok
                    /\ r.agent_scores = th[i].ret.detail

\* a claim is rejected on the votes of three agents, and one of them has
\* lowered its vote since the read
C35_Witness ==
    \E i \in Threads :
        /\ th[i].job = "done"
        /\ th[i].report.decision = "REJECT"
        /\ th[i].report.agent_scores.fraud_count = CONSENSUS_THRESHOLD
        /\ th[i].item \in DOMAIN scores
        /\ FraudCount(scores[th[i].item]) < CONSENSUS_THRESHOLD

\* ---------------------------------------------------------------- C36
\* this step removes the registration of the observer of task t
Unregisters(t) ==
    t \in DOMAIN active_connections /\ t \notin DOMAIN active_connections'

\* C36: the registration of the active observer of a task is removed only
\* by the disconnect of that observer's own handler or after a send to
\* that observer has failed, never by the teardown of an observer it has
\* replaced.
C36_TeardownSparesSuccessor ==
    [][\A t \in Tasks :
         Unregisters(t) =>
             LET w == active_connections[t] IN
             \/ ep[w] = "cancel" /\ ep'[w] = "done"
             \/ wsState[w] # "CONNECTED"
      ]_vars

\* ---------------------------------------------------------------- C37
\* C37: connect() never raises once the connection is accepted: no
\* handler is ended by an exception out of the replay of the buffer or
\* out of its deletion, whatever runs between the replayed sends.
C37_ConnectNeverRaises ==
    [][\A w \in Sockets :
         (ep'[w] = "crashed" /\ ep[w] # "crashed") => ep[w] = "accept"
      ]_vars

\* ---------------------------------------------------------------- C38
\* C38: the buffer of a task holds only events that the worker of the
\* task emitted: no connection_established message and no status snapshot
\* of websocket_endpoint is ever stored in it.
C38_BufferOfWorkerEvents ==
    \A t \in DOMAIN pending_updates :
        \A e \in Range(pending_updates[t]) :
            /\ e.src = "worker"
            /\ e.task_id = t
            /\ e \in Range(emitted[t])

\* ---------------------------------------------------------------- C39
\* the positions of the messages to w that carry a percentage
Progresses(w) ==
    {i \in DOMAIN received[w] : received[w][i].type \in {"progress", "completed"}}

\* C39: the percentages of the messages one observer connection receives
\* never go down, replayed events, the status snapshot sent on connect and
\* live events taken together.
C39_DeliveredProgressMonotone ==
    \A w \in Sockets :
        \A i, j \in Progresses(w) :
            i < j => received[w][i].progress <= received[w][j].progress

\* the detail a caller holds from its last get_consensus, while no later
\* call of the caller has returned
Holds(i) == th[i].ret.detail.agent_details # 0

\* no part of a held detail changes in a step
C40_DetailFixed ==
    [][\A i \in Threads :
         (Holds(i) /\ th[i].ret' = th[i].ret)
             => AgentDetails(th[i].ret.detail)' = AgentDetails(th[i].ret.detail)]_vars

\* when no vote is being written, the entry of each claim and agent is the
\* last vote of the pair in the history, and the history has one entry
\* for every update_score that returned True
C40_LatestIsLastOfHistory ==
    /\ lock = 0 =>
         \A c \in Items : \A a \in Voters :
             IF a \in VotersOf(c, Len(history))
             THEN /\ c \in DOMAIN scores
                  /\ Entries(scores[c], a) # {}
                  /\ Lookup(scores[c], a) = LatestVote(c, a, Len(history))
             ELSE c \in DOMAIN scores => Entries(scores[c], a) = {}
    /\ Len(history) = CountRecorded(MaxThreads)

\* C40: the detail that get_consensus has returned is a fixed snapshot, no
\* part of it, agent_details included, changes when update_score is
\* called for the same claim afterwards; and the latest vote of each claim
\* and agent is the last entry of the pair in the history, whose length
\* is the number of accepted votes.
C40_SnapshotAndAudit == C40_DetailFixed /\ []C40_LatestIsLastOfHistory

\* a caller holds a detail whose agent_details has a vote that was cast
\* after the detail was returned
C40_Witness ==
    \E i \in Threads :
        /\ Holds(i) /\ th[i].pc = "idle" /\ th[i].op = "consensus"
        /\ th[i].ret.detail.scores # AgentDetails(th[i].ret.detail)

====
